---- MODULE Spec2Model ----
(***************************************************************************)
(* Tower Defense: the combat-and-scheduling simulation.                    *)
(*                                                                         *)
(* Units of measure.  Times are whole milliseconds.  Lengths along the     *)
(* route are kept in thousandths of a pixel, so that the distance a unit   *)
(* moves in one update, speed * pathSpeed * deltaTime / 1000 px, is an     *)
(* exact integer: pathProgress holds progress * ProgressOne.  pathSpeed is *)
(* kept in tenths (0.8 is 8).                                              *)
(***************************************************************************)
EXTENDS Integers, Sequences, FiniteSets, TLC

VARIABLES
    enemies,      \* Game.enemies / the units under test: sequence of Enemy records
    towers,       \* Game.towers: sequence of Tower records
    projectiles,  \* Game.projectiles: sequence of Projectile records
    wm,           \* the WaveManager's fields
    game,         \* the Game's own fields (lives, gameState, isPaused, stats, money)
    now,          \* Date.now(), in ms since the page was loaded
    err,          \* the error the last operation raised, or NoError
    last,         \* observation of the last operation: what was called, on what, what it returned
    dealt         \* record of every damage application by a projectile, in order

vars == <<enemies, towers, projectiles, wm, game, now, err, last, dealt>>

NoError == "none"

----------------------------------------------------------------------------
(* helpers *)

Min(a, b) == IF a < b THEN a ELSE b
Max(a, b) == IF a > b THEN a ELSE b

clamp(value, min, max) == Min(Max(value, min), max)

----------------------------------------------------------------------------
(* constants.js, pathData.js *)

GAME_CONFIG ==
    [CANVAS_WIDTH |-> 800, CANVAS_HEIGHT |-> 600, GRID_SIZE |-> 64,
     STARTING_LIVES |-> 20, STARTING_MONEY |-> 500, WAVE_INTERVAL |-> 8000]

EnemyKinds == {"BASIC", "TANK", "FAST"}

ENEMY_TYPES ==
    [BASIC |-> [health |-> 100, maxHealth |-> 100, speed |-> 60,  reward |-> 10, size |-> 20, pathSpeed |-> 10],
     TANK  |-> [health |-> 300, maxHealth |-> 300, speed |-> 30,  reward |-> 25, size |-> 25, pathSpeed |-> 8],
     FAST  |-> [health |-> 60,  maxHealth |-> 60,  speed |-> 120, reward |-> 15, size |-> 18, pathSpeed |-> 15]]

PATH_COORDINATES ==
    << <<-20, 300>>, <<100, 300>>, <<200, 300>>, <<200, 200>>, <<200, 150>>,
       <<400, 150>>, <<500, 150>>, <<500, 250>>, <<500, 350>>, <<650, 350>>,
       <<700, 350>>, <<700, 250>>, <<700, 200>>, <<820, 200>> >>

Abs(x) == IF x < 0 THEN -x ELSE x

\* every segment of the route is parallel to an axis, so its length is exact
SegmentLength(i) ==
    Abs(PATH_COORDINATES[i + 1][1] - PATH_COORDINATES[i][1])
  + Abs(PATH_COORDINATES[i + 1][2] - PATH_COORDINATES[i][2])

RECURSIVE PathLengthUpTo(_)
PathLengthUpTo(n) == IF n = 0 THEN 0 ELSE PathLengthUpTo(n - 1) + SegmentLength(n)

calculatePathLength == PathLengthUpTo(Len(PATH_COORDINATES) - 1)

\* pathProgress = 1.0
ProgressOne == calculatePathLength * 1000

----------------------------------------------------------------------------
(* Enemy *)

EnemyNew(type, id) ==
    [id |-> id, type |-> type,
     health |-> ENEMY_TYPES[type].health, maxHealth |-> ENEMY_TYPES[type].maxHealth,
     speed |-> ENEMY_TYPES[type].speed, pathSpeed |-> ENEMY_TYPES[type].pathSpeed,
     reward |-> ENEMY_TYPES[type].reward, size |-> ENEMY_TYPES[type].size,
     pathProgress |-> 0, alive |-> TRUE, reachedEnd |-> FALSE,
     rewardProcessed |-> FALSE]

isAlive(e) == e.alive

\* no unit is ever taken to have arrived
hasReachedEnd_Never(e) == FALSE

hasReachedEnd(e) == e.reachedEnd

\* moveDistance / totalPathLength, in units of 1 / ProgressOne
ProgressIncrement(e, deltaTime) == (e.speed * e.pathSpeed * deltaTime) \div 10

\* the clamp left out: progress is whatever the addition gives
ClampProgress_Unclamped(p) == p

ClampProgress(p) == clamp(p, 0, ProgressOne)

EnemyMove(e, deltaTime) ==
    IF ~e.alive \/ e.reachedEnd THEN e
    ELSE [e EXCEPT !.pathProgress = ClampProgress(e.pathProgress + ProgressIncrement(e, deltaTime))]

\* reaching the end recorded, the unit left alive
checkEndReached_StaysAlive(e) ==
    IF e.pathProgress >= ProgressOne
    THEN [e EXCEPT !.reachedEnd = TRUE]
    ELSE e

checkEndReached(e) ==
    IF e.pathProgress >= ProgressOne
    THEN [e EXCEPT !.reachedEnd = TRUE, !.alive = FALSE]
    ELSE e

EnemyUpdate(e, deltaTime) ==
    IF ~e.alive \/ e.reachedEnd THEN e
    ELSE checkEndReached(EnemyMove(e, deltaTime))

HealthAfterDamage(health, damage) == health - damage

\* health of a unit the damage has killed; the code resets it to 0
DeadHealth_Unclamped(health) == health

DeadHealth(health) == 0

\* the unit after takeDamage(damage), and what the call returns
takeDamage(e, damage) ==
    IF ~e.alive THEN [e |-> e, ret |-> FALSE]
    ELSE LET h == HealthAfterDamage(e.health, damage) IN
         IF h <= 0
         THEN [e |-> [e EXCEPT !.health = DeadHealth(h), !.alive = FALSE], ret |-> TRUE]
         ELSE [e |-> [e EXCEPT !.health = h], ret |-> FALSE]

----------------------------------------------------------------------------
(* helpers.js, pathData.js: geometry.  Positions are whole pixels; a        *)
(* quotient or a square root is rounded toward zero.  Comparisons of a      *)
(* distance with a radius are made on the squares and are exact.            *)

Sign(x) == IF x > 0 THEN 1 ELSE IF x < 0 THEN -1 ELSE 0

\* a / b rounded toward zero, b > 0
Quot(a, b) == Sign(a) * (Abs(a) \div b)

\* Body applied to the value of v, which is computed once
Bind(v, Body(_)) == CHOOSE r \in {Body(x) : x \in {v}} : TRUE

RECURSIVE IsqrtIter(_, _, _)
IsqrtIter(n, lo, hi) ==
    IF lo >= hi THEN lo
    ELSE Bind((lo + hi + 1) \div 2,
              LAMBDA mid : IF mid * mid <= n THEN IsqrtIter(n, mid, hi)
                           ELSE IsqrtIter(n, lo, mid - 1))

\* Math.sqrt rounded down; 46340 is the largest root of a 32-bit square
Isqrt(n) == Bind(n, LAMBDA m : IsqrtIter(m, 0, Min(m, 46340)))

distanceSquared(x1, y1, x2, y2) == (x2 - x1) * (x2 - x1) + (y2 - y1) * (y2 - y1)

distance(x1, y1, x2, y2) == Isqrt(distanceSquared(x1, y1, x2, y2))

isWithinBounds(x, y) ==
    x >= 0 /\ x < GAME_CONFIG.CANVAS_WIDTH /\ y >= 0 /\ y < GAME_CONFIG.CANVAS_HEIGHT

\* lerp(start, end, t) with t = tenths / 10
lerp(start, end, tenths) == start + Quot((end - start) * tenths, 10)

NumSegments == Len(PATH_COORDINATES) - 1

\* length of the route up to the end of segment i, in thousandths of a px
DistanceUpTo == [i \in 0..NumSegments |-> PathLengthUpTo(i) * 1000]

\* the first segment from i on whose end is not before the given progress
RECURSIVE SegmentFrom(_, _)
SegmentFrom(i, progress) ==
    IF i >= NumSegments \/ DistanceUpTo[i] >= progress THEN i
    ELSE SegmentFrom(i + 1, progress)

\* the point at distance off (whole px) along segment i, and the unit vector
\* of the direction of travel
PointOnSegment(i, off) ==
    LET prev == PATH_COORDINATES[i]
        curr == PATH_COORDINATES[i + 1]
        dx   == Sign(curr[1] - prev[1])
        dy   == Sign(curr[2] - prev[2])
    IN  [x |-> prev[1] + dx * off, y |-> prev[2] + dy * off, dx |-> dx, dy |-> dy]

\* position on the route and the unit vector of the direction of travel
getPositionOnPath(progress) ==
    Bind(clamp(progress, 0, ProgressOne),
         LAMBDA pr : Bind(SegmentFrom(1, pr),
                          LAMBDA i : PointOnSegment(i, (pr - DistanceUpTo[i - 1]) \div 1000)))

EnemyPosition(e) == getPositionOnPath(e.pathProgress)

\* index of the unit with this id in the list, 0 when it is not there
IndexOfId(es, id) ==
    IF \E i \in 1..Len(es) : es[i].id = id
    THEN CHOOSE i \in 1..Len(es) : es[i].id = id
    ELSE 0

----------------------------------------------------------------------------
(* Projectile *)

TowerKinds == {"BASIC", "SNIPER", "AREA"}

\* fireRate in tenths of a shot per second
TOWER_TYPES ==
    [BASIC  |-> [damage |-> 25, range |-> 100, fireRate |-> 20, cost |-> 100, size |-> 40,
                 projectileSpeed |-> 200, splash |-> FALSE, splashRadius |-> 0],
     SNIPER |-> [damage |-> 80, range |-> 180, fireRate |-> 8,  cost |-> 250, size |-> 40,
                 projectileSpeed |-> 400, splash |-> FALSE, splashRadius |-> 0],
     AREA   |-> [damage |-> 40, range |-> 80,  fireRate |-> 12, cost |-> 175, size |-> 40,
                 projectileSpeed |-> 150, splash |-> TRUE,  splashRadius |-> 50]]

\* the tracked unit taken to be alive as long as it is in the list
TargetAlive_Tracked(p, es) == p.target # 0 /\ IndexOfId(es, p.target) # 0

\* the tracked unit is a live object: a unit no longer in the list was removed
\* by cleanupEntities, which removes only units that are not alive
TargetAlive(p, es) ==
    /\ p.target # 0
    /\ IndexOfId(es, p.target) # 0
    /\ es[IndexOfId(es, p.target)].alive

\* speed * pathSpeed, px per second, along the direction of travel
calculateTargetVelocity(e) ==
    Bind(EnemyPosition(e), LAMBDA pos :
         [x |-> pos.dx * ((e.speed * e.pathSpeed) \div 10),
          y |-> pos.dy * ((e.speed * e.pathSpeed) \div 10)])

\* the lead time, in ms: min(distance / speed, 0.5 s)
PredictionTime(p, pos) ==
    Min((distance(p.x, p.y, pos.x, pos.y) * 1000) \div p.speed, 500)

\* the point the unit at pos reaches after t ms at velocity tv
Lead(pos, tv, t) == [x |-> pos.x + Quot(tv.x * t, 1000), y |-> pos.y + Quot(tv.y * t, 1000)]

predictTargetPosition(p, es) ==
    IF ~TargetAlive(p, es) THEN [x |-> p.tx, y |-> p.ty]
    ELSE Bind(es[IndexOfId(es, p.target)], LAMBDA e :
         Bind(EnemyPosition(e), LAMBDA pos :
         Bind(PredictionTime(p, pos), LAMBDA t :
              Lead(pos, calculateTargetVelocity(e), t))))

destroy(p) == [p EXCEPT !.active = FALSE, !.markedForRemoval = TRUE]

\* the velocity of magnitude speed from (x, y) toward point to, or the
\* zero vector when the two coincide
VelocityToward(x, y, to, speed) ==
    Bind(distance(x, y, to.x, to.y), LAMBDA dist :
         IF dist > 0
         THEN [x |-> Quot((to.x - x) * speed, dist), y |-> Quot((to.y - y) * speed, dist),
               zero |-> FALSE]
         ELSE [x |-> 0, y |-> 0, zero |-> TRUE])

\* calculateInitialVelocity leaving a projectile at its aim point active
calculateInitialVelocity_StaysActive(p, es) ==
    Bind(VelocityToward(p.x, p.y,
                        IF TargetAlive(p, es) THEN predictTargetPosition(p, es)
                        ELSE [x |-> p.tx, y |-> p.ty],
                        p.speed),
         LAMBDA v : [p EXCEPT !.vx = v.x, !.vy = v.y])

calculateInitialVelocity(p, es) ==
    Bind(VelocityToward(p.x, p.y,
                        IF TargetAlive(p, es) THEN predictTargetPosition(p, es)
                        ELSE [x |-> p.tx, y |-> p.ty],
                        p.speed),
         LAMBDA v : IF ~v.zero THEN [p EXCEPT !.vx = v.x, !.vy = v.y]
                    ELSE [p EXCEPT !.vx = 0, !.vy = 0, !.active = FALSE])

\* new Projectile(x, y, target, damage, speed, splash, splashRadius)
ProjectileNew(id, x, y, target, damage, speed, splash, splashRadius, es) ==
    Bind(IndexOfId(es, target), LAMBDA i :
    Bind(IF i # 0 THEN EnemyPosition(es[i]) ELSE [x |-> x, y |-> y], LAMBDA tp :
    Bind([id |-> id, x |-> x, y |-> y, target |-> IF i # 0 THEN target ELSE 0,
          tx |-> tp.x, ty |-> tp.y, speed |-> speed, vx |-> 0, vy |-> 0,
          damage |-> damage, splash |-> splash, splashRadius |-> splashRadius,
          active |-> TRUE, hasHit |-> FALSE, markedForRemoval |-> FALSE,
          size |-> 6, timeAlive |-> 0, distanceTraveled |-> 0,
          processed |-> FALSE],
         LAMBDA p : calculateInitialVelocity(p, es))))

MaxLifetime == 5000
MaxDistance == 1000

\* the velocity moves a tenth of the way (correctionFactor 0.1) toward the
\* velocity that points at the predicted position
adjustTrajectory(p, es) ==
    IF ~TargetAlive(p, es) THEN p
    ELSE Bind(VelocityToward(p.x, p.y, predictTargetPosition(p, es), p.speed),
              LAMBDA v : IF ~v.zero
                         THEN [p EXCEPT !.vx = lerp(p.vx, v.x, 1), !.vy = lerp(p.vy, v.y, 1)]
                         ELSE p)

\* the projectile after its velocity has carried it for deltaTime ms
Moved(p, deltaTime) ==
    Bind([x |-> p.x + Quot(p.vx * deltaTime, 1000), y |-> p.y + Quot(p.vy * deltaTime, 1000)],
         LAMBDA n : [p EXCEPT !.x = n.x, !.y = n.y,
                              !.distanceTraveled = p.distanceTraveled
                                                   + distance(p.x, p.y, n.x, n.y)])

updatePosition(p, deltaTime, es) ==
    Bind(Moved(p, deltaTime),
         LAMBDA moved : IF moved.distanceTraveled > MaxDistance THEN destroy(moved)
                        ELSE IF TargetAlive(moved, es) THEN adjustTrajectory(moved, es)
                        ELSE moved)

\* checkCollisionWithEnemy without the touching case
checkCollisionWithEnemy_Strict(p, e) ==
    Bind(EnemyPosition(e), LAMBDA pos :
         4 * distanceSquared(p.x, p.y, pos.x, pos.y) < (e.size + p.size) * (e.size + p.size))

\* dist <= enemy.size / 2 + this.size / 2, compared on the squares
checkCollisionWithEnemy(p, e) ==
    Bind(EnemyPosition(e), LAMBDA pos :
         4 * distanceSquared(p.x, p.y, pos.x, pos.y) <= (e.size + p.size) * (e.size + p.size))

\* the splash at the full damage of the projectile
SplashDamage_Full(p) == p.damage

\* Math.floor(this.damage * 0.7)
SplashDamage(p) == (p.damage * 7) \div 10

\* Math.floor(splashDamage * (1 - dist / splashRadius)) for dist <= splashRadius:
\* the largest k with splashDamage * dist <= splashRadius * (splashDamage - k)
FinalDamageAt(d2, sd, r) ==
    CHOOSE k \in 0..sd :
        /\ sd * sd * d2 <= r * r * (sd - k) * (sd - k)
        /\ k < sd => sd * sd * d2 > r * r * (sd - k - 1) * (sd - k - 1)

DistanceSquaredTo(p, e) ==
    Bind(EnemyPosition(e), LAMBDA pos : distanceSquared(p.x, p.y, pos.x, pos.y))

FinalDamage(p, e) == FinalDamageAt(DistanceSquaredTo(p, e), SplashDamage(p), p.splashRadius)

InSplashRadius(p, e) == DistanceSquaredTo(p, e) <= p.splashRadius * p.splashRadius

\* a damage application by a projectile, for the record of what was dealt
Dealt(p, e, kind, amount) == [proj |-> p.id, unit |-> e.id, kind |-> kind, amount |-> amount]

\* the struck unit is skipped by the splash loop
IsCenterEnemy_Never(e, centerEnemy) == FALSE

IsCenterEnemy(e, centerEnemy) == e.id = centerEnemy.id

\* the amount the splash loop deals to unit e, 0 when it skips the unit
SplashAmount(p, centerEnemy, e) ==
    IF ~e.alive \/ IsCenterEnemy(e, centerEnemy) THEN 0
    ELSE IF InSplashRadius(p, e) THEN FinalDamage(p, e)
    ELSE 0

\* the record of the damage the splash loop dealt, from index i on
RECURSIVE SplashLog(_, _, _, _)
SplashLog(p, centerEnemy, es, i) ==
    IF i > Len(es) THEN << >>
    ELSE Bind(SplashAmount(p, centerEnemy, es[i]), LAMBDA amount :
              (IF amount > 0 THEN << Dealt(p, es[i], "splash", amount) >> ELSE << >>)
              \o SplashLog(p, centerEnemy, es, i + 1))

\* the loop over allEnemies: each unit takes its own amount, independently
\* of the others
applySplashDamage(p, centerEnemy, es) ==
    [es  |-> [i \in 1..Len(es) |->
                 Bind(SplashAmount(p, centerEnemy, es[i]), LAMBDA amount :
                      IF amount > 0 THEN takeDamage(es[i], amount).e ELSE es[i])],
     log |-> SplashLog(p, centerEnemy, es, 1)]

\* hit() returns at once on a projectile that has already hit
HitGuard_Never(p) == FALSE

HitGuard(p) == p.hasHit

\* hit(hitEnemy, allEnemies), hitEnemy = allEnemies[i]
hit(p, i, es) ==
    IF HitGuard(p) THEN [p |-> p, es |-> es, log |-> << >>]
    ELSE Bind([es EXCEPT ![i] = takeDamage(es[i], p.damage).e], LAMBDA es1 :
         Bind(IF p.splash /\ p.splashRadius > 0
              THEN applySplashDamage(p, es1[i], es1)
              ELSE [es |-> es1, log |-> << >>], LAMBDA sp :
              [p   |-> destroy([p EXCEPT !.hasHit = TRUE]),
               es  |-> sp.es,
               log |-> << [proj |-> p.id, unit |-> 0, kind |-> "resolve", amount |-> 0],
                          Dealt(p, es[i], "direct", p.damage) >> \o sp.log]))

\* first index from i on of an alive unit the projectile overlaps, 0 if none
FirstCollision(p, es) ==
    IF \E i \in 1..Len(es) : es[i].alive /\ checkCollisionWithEnemy(p, es[i])
    THEN CHOOSE i \in 1..Len(es) :
            /\ es[i].alive /\ checkCollisionWithEnemy(p, es[i])
            /\ \A j \in 1..(i - 1) : ~(es[j].alive /\ checkCollisionWithEnemy(p, es[j]))
    ELSE 0

\* checkCollisions taking the first unit it overlaps, tracked or not
checkCollisions_AnyUnit(p, es) ==
    IF ~p.active \/ p.hasHit THEN [p |-> p, es |-> es, log |-> << >>]
    ELSE Bind(FirstCollision(p, es), LAMBDA i :
              IF i # 0 THEN hit(p, i, es) ELSE [p |-> p, es |-> es, log |-> << >>])

checkCollisions(p, es) ==
    IF ~p.active \/ p.hasHit THEN [p |-> p, es |-> es, log |-> << >>]
    ELSE IF TargetAlive(p, es)
    THEN IF checkCollisionWithEnemy(p, es[IndexOfId(es, p.target)])
         THEN hit(p, IndexOfId(es, p.target), es)
         ELSE [p |-> p, es |-> es, log |-> << >>]
    ELSE Bind(FirstCollision(p, es), LAMBDA i :
              IF i # 0 THEN hit(p, i, es) ELSE [p |-> p, es |-> es, log |-> << >>])

checkBounds(p) == IF ~isWithinBounds(p.x, p.y) THEN destroy(p) ELSE p

\* update(deltaTime, enemies)
ProjectileUpdate(p, deltaTime, es) ==
    IF ~p.active THEN [p |-> p, es |-> es, log |-> << >>]
    ELSE Bind([p EXCEPT !.timeAlive = p.timeAlive + deltaTime], LAMBDA aged :
         IF aged.timeAlive > MaxLifetime THEN [p |-> destroy(aged), es |-> es, log |-> << >>]
         ELSE Bind(updatePosition(aged, deltaTime, es), LAMBDA moved :
              Bind(checkCollisions(moved, es), LAMBDA c :
                   [p |-> checkBounds(c.p), es |-> c.es, log |-> c.log])))

----------------------------------------------------------------------------
(* Tower.  Angles are whole milliradians.                                   *)

Pi == 3142

\* atan(num / den) for 0 <= num <= den, den > 0, within 4 mrad:
\* atan(z) ~ z * (pi/4 + 0.273 * (1 - z))
Atan01(num, den) == (num * (1058 * den - 273 * num)) \div (den * den)

\* Math.atan2(y, x)
Atan2(y, x) ==
    IF x = 0 /\ y = 0 THEN 0
    ELSE Bind(IF Abs(y) <= Abs(x) THEN Atan01(Abs(y), Abs(x))
              ELSE Pi \div 2 - Atan01(Abs(x), Abs(y)),
              LAMBDA base : IF x >= 0 THEN Sign(y) * base
                            ELSE IF y >= 0 THEN Pi - base ELSE -(Pi - base))

angleBetween(x1, y1, x2, y2) == Atan2(y2 - y1, x2 - x1)

\* the while loops that bring an angle back into [-pi, pi]
RECURSIVE NormalizeAngle(_)
NormalizeAngle(a) ==
    IF a > Pi THEN NormalizeAngle(a - 2 * Pi)
    ELSE IF a < -Pi THEN NormalizeAngle(a + 2 * Pi)
    ELSE a

TargetingModes == {"closest_to_end", "closest_to_tower", "strongest", "weakest"}

\* new Tower(type, x, y).  The field canShoot, set to true, is an own
\* property of the object with the name of the method canShoot()
TowerNew(type, id, x, y) ==
    [id |-> id, type |-> type, x |-> x, y |-> y,
     damage |-> TOWER_TYPES[type].damage, range |-> TOWER_TYPES[type].range,
     fireRate |-> TOWER_TYPES[type].fireRate,
     projectileSpeed |-> TOWER_TYPES[type].projectileSpeed,
     splash |-> TOWER_TYPES[type].splash, splashRadius |-> TOWER_TYPES[type].splashRadius,
     target |-> 0, targetingMode |-> "closest_to_end",
     lastShotTime |-> 0, canShoot |-> TRUE,
     active |-> TRUE, rotationAngle |-> 0, targetAngle |-> 0, shotsFired |-> 0]

\* isInRange with a unit at the very range left out
isInRange_Strict(t, e) ==
    Bind(EnemyPosition(e), LAMBDA pos :
         distanceSquared(t.x, t.y, pos.x, pos.y) < t.range * t.range)

isInRange(t, e) ==
    Bind(EnemyPosition(e), LAMBDA pos :
         distanceSquared(t.x, t.y, pos.x, pos.y) <= t.range * t.range)

\* the test of the tracked unit left to whether one is tracked at all
TowerTargetValid_Kept(t, es) == t.target # 0

\* the tracked unit is a live object; a unit no longer in the list is not alive
TowerTargetValid(t, es) ==
    /\ t.target # 0
    /\ IndexOfId(es, t.target) # 0
    /\ es[IndexOfId(es, t.target)].alive
    /\ isInRange(t, es[IndexOfId(es, t.target)])

getDistanceToEnd(e) == ProgressOne - e.pathProgress

\* current is not strictly better than best, whatever the mode: the candidate
\* met last wins a tie
Better_OrEqual(t, current, best) ==
    CASE t.targetingMode = "closest_to_end" ->
            getDistanceToEnd(current) <= getDistanceToEnd(best)
      [] t.targetingMode = "closest_to_tower" ->
            Bind(EnemyPosition(current), LAMBDA c :
            Bind(EnemyPosition(best), LAMBDA b :
                 distanceSquared(t.x, t.y, c.x, c.y) <= distanceSquared(t.x, t.y, b.x, b.y)))
      [] t.targetingMode = "strongest" -> current.health >= best.health
      [] t.targetingMode = "weakest" -> current.health <= best.health

\* the test of the reducer of each mode: current replaces best.  Math.sqrt is
\* strictly increasing, so the two distances compare as their squares do
Better(t, current, best) ==
    CASE t.targetingMode = "closest_to_end" ->
            getDistanceToEnd(current) < getDistanceToEnd(best)
      [] t.targetingMode = "closest_to_tower" ->
            Bind(EnemyPosition(current), LAMBDA c :
            Bind(EnemyPosition(best), LAMBDA b :
                 distanceSquared(t.x, t.y, c.x, c.y) < distanceSquared(t.x, t.y, b.x, b.y)))
      [] t.targetingMode = "strongest" -> current.health > best.health
      [] t.targetingMode = "weakest" -> current.health < best.health

\* validTargets.reduce((best, current) => ...) from candidate k on: best and
\* the candidates are indices into the list of units
RECURSIVE ReduceTargets(_, _, _, _, _)
ReduceTargets(t, es, validTargets, k, best) ==
    IF k > Len(validTargets) THEN best
    ELSE ReduceTargets(t, es, validTargets, k + 1,
                       IF Better(t, es[validTargets[k]], es[best]) THEN validTargets[k] ELSE best)

\* selectBestTarget(validTargets), for a list that is not empty: without an
\* initial value reduce starts from the first candidate
selectBestTarget(t, es, validTargets) ==
    IF t.targetingMode \in TargetingModes
    THEN ReduceTargets(t, es, validTargets, 2, validTargets[1])
    ELSE validTargets[1]

\* enemies.filter(enemy => enemy.isAlive() && this.isInRange(enemy)), as the
\* indices of the units kept, in the order of the list
ValidTargets(t, es) ==
    SelectSeq([i \in 1..Len(es) |-> i], LAMBDA i : isAlive(es[i]) /\ isInRange(t, es[i]))

\* findTarget choosing anew at every call, the tracked unit forgotten
findTarget_Afresh(t, es) ==
    Bind(SelectSeq([i \in 1..Len(es) |-> i], LAMBDA i : isAlive(es[i]) /\ isInRange(t, es[i])),
         LAMBDA validTargets :
              IF Len(validTargets) = 0 THEN [t EXCEPT !.target = 0]
              ELSE [t EXCEPT !.target = es[selectBestTarget(t, es, validTargets)].id])

findTarget(t, es) ==
    IF TowerTargetValid(t, es) THEN t
    ELSE Bind(ValidTargets(t, es), LAMBDA validTargets :
              IF Len(validTargets) = 0 THEN [t EXCEPT !.target = 0]
              ELSE [t EXCEPT !.target = es[selectBestTarget(t, es, validTargets)].id])

\* setTargetingMode without the test of the mode
setTargetingMode_Unchecked(t, mode) == [t EXCEPT !.targetingMode = mode]

setTargetingMode(t, mode) ==
    IF mode \in TargetingModes THEN [t EXCEPT !.targetingMode = mode] ELSE t

\* rotationSpeed (5 rad/s) * deltaTime / 1000, in mrad
RotationStep(deltaTime) == 5 * deltaTime

updateRotation(t, es, deltaTime) ==
    IF t.target = 0 THEN t
    ELSE Bind(EnemyPosition(es[IndexOfId(es, t.target)]), LAMBDA pos :
         Bind(angleBetween(t.x, t.y, pos.x, pos.y), LAMBDA targetAngle :
         Bind(NormalizeAngle(targetAngle - t.rotationAngle), LAMBDA normalizedDiff :
              [t EXCEPT !.targetAngle = targetAngle,
                        !.rotationAngle =
                            IF Abs(normalizedDiff) < RotationStep(deltaTime) THEN targetAngle
                            ELSE NormalizeAngle(t.rotationAngle
                                     + Sign(normalizedDiff) * RotationStep(deltaTime))])))

\* the shorter-arc difference between the facing angle and the bearing
Misalignment(t) ==
    Min(Abs(t.targetAngle - t.rotationAngle), 2 * Pi - Abs(t.targetAngle - t.rotationAngle))

\* the tolerance of attemptShoot, 0.1 rad
AimTolerance == 100

TypeErrorCanShoot == "TypeError: canShoot is not a function"

\* whether the expression tower.canShoot() can be evaluated: the own property
\* canShoot of the object hides the method, and a boolean cannot be called
CanShootIsCallable_Always(t) == TRUE

CanShootIsCallable(t) == t.canShoot \notin BOOLEAN

\* the method canShoot(): (Date.now() - lastShotTime) >= 1000 / fireRate
canShoot(t, time) == (time - t.lastShotTime) * t.fireRate >= 10000

\* the call tower.canShoot()
CallCanShoot(t, time) ==
    IF CanShootIsCallable(t) THEN [err |-> NoError, ret |-> canShoot(t, time)]
    ELSE [err |-> TypeErrorCanShoot, ret |-> FALSE]

\* a shot, for the record of events: who fired, how long after the previous
\* shot, how far off the bearing, and whether the projectile joined the game
Shot(t, time, added) ==
    [ev |-> "shot", a |-> t.id,
     b |-> [cooldownElapsed |-> canShoot(t, time), misalignment |-> Misalignment(t),
            added |-> added]]

\* shoot(): the tower after the call, the projectile returned (as a sequence
\* of at most one), the error raised
shoot(t, es, time, id) ==
    Bind(CallCanShoot(t, time), LAMBDA c :
         IF c.err # NoError THEN [t |-> t, made |-> << >>, err |-> c.err]
         ELSE IF ~c.ret \/ t.target = 0 THEN [t |-> t, made |-> << >>, err |-> NoError]
         ELSE [t    |-> [t EXCEPT !.lastShotTime = time, !.shotsFired = t.shotsFired + 1],
               made |-> << ProjectileNew(id, t.x, t.y, t.target, t.damage, t.projectileSpeed,
                                         t.splash, t.splashRadius, es) >>,
               err  |-> NoError])

\* attemptShoot(): the projectile that shoot() returns is dropped
attemptShoot(t, es, time) ==
    Bind(CallCanShoot(t, time), LAMBDA c :
         IF c.err # NoError THEN [t |-> t, events |-> << >>, err |-> c.err]
         ELSE IF ~c.ret \/ ~TowerTargetValid(t, es) \/ Misalignment(t) > AimTolerance
         THEN [t |-> t, events |-> << >>, err |-> NoError]
         ELSE Bind(shoot(t, es, time, 0), LAMBDA r :
                   [t |-> r.t,
                    events |-> IF r.made # << >> THEN << Shot(t, time, FALSE) >> ELSE << >>,
                    err |-> r.err]))

\* Tower.update(enemies, deltaTime)
TowerUpdate(t, es, deltaTime, time) ==
    IF ~t.active THEN [t |-> t, events |-> << >>, err |-> NoError]
    ELSE Bind(findTarget(t, es), LAMBDA t1 :
         Bind(updateRotation(t1, es, deltaTime), LAMBDA t2 :
              attemptShoot(t2, es, time)))

----------------------------------------------------------------------------
(* WaveManager, EconomyManager, Game: construction *)

\* how many waves of the wave table are played
NumWaves == 2

\* the cap on the number of units of one group of a wave
MaxGroupCount == 1

\* the first waves of constants.js WAVE_DATA, each group cut to MaxGroupCount units
WaveTable ==
    << [waveNumber |-> 1, reward |-> 50,
        enemies |-> << [type |-> "BASIC", count |-> Min(10, MaxGroupCount), spawnInterval |-> 1000] >>],
       [waveNumber |-> 2, reward |-> 75,
        enemies |-> << [type |-> "BASIC", count |-> Min(15, MaxGroupCount), spawnInterval |-> 800] >>],
       [waveNumber |-> 3, reward |-> 100,
        enemies |-> << [type |-> "BASIC", count |-> Min(10, MaxGroupCount), spawnInterval |-> 800],
                       [type |-> "TANK", count |-> Min(3, MaxGroupCount), spawnInterval |-> 2000] >>],
       [waveNumber |-> 4, reward |-> 125,
        enemies |-> << [type |-> "BASIC", count |-> Min(15, MaxGroupCount), spawnInterval |-> 700],
                       [type |-> "TANK", count |-> Min(5, MaxGroupCount), spawnInterval |-> 1800] >>] >>

WAVE_DATA == SubSeq(WaveTable, 1, Min(NumWaves, Len(WaveTable)))

\* The numbers of the wave statistics, which the code lets leave the integers:
\* a finite number of ms, Infinity (inf = 1), -Infinity (inf = -1) or NaN
Finite(v) == [nan |-> FALSE, inf |-> 0, v |-> v]

Infinity == [nan |-> FALSE, inf |-> 1, v |-> 0]

NaN == [nan |-> TRUE, inf |-> 0, v |-> 0]

IsFinite(a) == ~a.nan /\ a.inf = 0

\* the sign of a number that is not NaN, a zero counted as positive
NumSign(a) == IF a.inf # 0 THEN a.inf ELSE IF a.v < 0 THEN -1 ELSE 1

\* a * b: Infinity * 0 is NaN
NumTimes(a, b) ==
    IF a.nan \/ b.nan THEN NaN
    ELSE IF IsFinite(a) /\ IsFinite(b) THEN Finite(a.v * b.v)
    ELSE IF (IsFinite(a) /\ a.v = 0) \/ (IsFinite(b) /\ b.v = 0) THEN NaN
    ELSE [Infinity EXCEPT !.inf = NumSign(a) * NumSign(b)]

\* a + b: Infinity + -Infinity is NaN
NumPlus(a, b) ==
    IF a.nan \/ b.nan THEN NaN
    ELSE IF IsFinite(a) /\ IsFinite(b) THEN Finite(a.v + b.v)
    ELSE IF ~IsFinite(a) /\ ~IsFinite(b) /\ a.inf # b.inf THEN NaN
    ELSE IF IsFinite(a) THEN b ELSE a

\* a / b: 0 / 0 and Infinity / Infinity are NaN, x / 0 is Infinity with the
\* sign of x; the quotient of two finite numbers is kept to the whole ms
NumOver(a, b) ==
    IF a.nan \/ b.nan THEN NaN
    ELSE IF ~IsFinite(a) /\ ~IsFinite(b) THEN NaN
    ELSE IF ~IsFinite(a) THEN [Infinity EXCEPT !.inf = NumSign(a) * NumSign(b)]
    ELSE IF ~IsFinite(b) THEN Finite(0)
    ELSE IF b.v = 0 THEN (IF a.v = 0 THEN NaN ELSE [Infinity EXCEPT !.inf = NumSign(a)])
    ELSE Finite(Sign(a.v) * Sign(b.v) * (Abs(a.v) \div Abs(b.v)))

\* a < b: false when either is NaN
NumLess(a, b) ==
    /\ ~a.nan /\ ~b.nan
    /\ IF a.inf # b.inf THEN a.inf < b.inf ELSE IsFinite(a) /\ a.v < b.v

\* new WaveManager(waveData): the four callbacks are not set
WaveManagerFor(waveData) ==
    [waveData |-> waveData, callbacks |-> FALSE,
     currentWave |-> 0, waveInProgress |-> FALSE, waveComplete |-> FALSE,
     allWavesComplete |-> FALSE,
     enemiesSpawned |-> 0, enemiesToSpawn |-> 0, spawnQueue |-> << >>,
     lastSpawnTime |-> 0, nextSpawnTime |-> 0,
     waveStartTime |-> 0, waveCountdown |-> 0, isCountingDown |-> FALSE,
     totalEnemiesSpawned |-> 0, totalWavesCompleted |-> 0,
     averageWaveTime |-> Finite(0), fastestWave |-> Infinity, slowestWave |-> Finite(0)]

\* new WaveManager(): waveData defaults to WAVE_DATA
WaveManagerNew == WaveManagerFor(WAVE_DATA)

\* setCallbacks, given the four callbacks as Game.setupCallbacks gives them
setCallbacks(mgr) == [mgr EXCEPT !.callbacks = TRUE]

\* the Game's fields, with the EconomyManager's money and multipliers (in
\* tenths) and the cells of the Map that hold a tower
GameNew ==
    [gameState |-> "playing", isPaused |-> FALSE,
     lives |-> GAME_CONFIG.STARTING_LIVES, money |-> GAME_CONFIG.STARTING_MONEY,
     earningsMultiplier |-> 10, costMultiplier |-> 10,
     selectedTowerType |-> "none", towerCells |-> {},
     nextId |-> 1,
     enemiesSpawned |-> 0, enemiesKilled |-> 0, towersBuilt |-> 0, projectilesFired |-> 0,
     moneyEarned |-> 0, moneySpent |-> 0, wavesCompleted |-> 0, livesLost |-> 0]

NoRec == [none |-> TRUE]

\* what the last operation was: its name, the object it was called on, its
\* argument, its return value, the object before the call, the events it emitted
Observed(op, who, arg, ret, pre, events) ==
    [op |-> op, who |-> who, arg |-> arg, ret |-> ret, pre |-> pre, events |-> events]

NothingObserved == Observed("init", 0, 0, FALSE, NoRec, << >>)

----------------------------------------------------------------------------
(* The world a frame works on: the objects of the game, the error raised so *)
(* far (an exception unwinds every call up to the game loop) and the events *)
(* delivered so far                                                         *)

World(w, es, ts, ps, g, d) ==
    [wm |-> w, enemies |-> es, towers |-> ts, projectiles |-> ps, game |-> g,
     err |-> NoError, events |-> << >>, dealt |-> d, ret |-> FALSE]

Event(ev, a, b) == [ev |-> ev, a |-> a, b |-> b]

Emit(w, e) == [w EXCEPT !.events = Append(@, e)]

\* the events of the given kind among those delivered
EventsOf(events, ev) == SelectSeq(events, LAMBDA e : e.ev = ev)

\* F applied to the world unless an exception is unwinding
Then(w, F(_)) == CHOOSE r \in {IF x.err # NoError THEN x ELSE F(x) : x \in {w}} : TRUE

----------------------------------------------------------------------------
(* EconomyManager *)

\* Math.floor(amount * multiplier)
Scaled(amount, tenths) == (amount * tenths) \div 10

getFinalEarnings(g, baseEarnings) == Scaled(baseEarnings, g.earningsMultiplier)

getFinalCost(g, baseCost) == Scaled(baseCost, g.costMultiplier)

\* canAfford(cost) applies the cost multiplier to what it is given
canAfford(g, cost) == g.money >= Scaled(cost, g.costMultiplier)

addMoney(g, amount) ==
    IF amount <= 0 THEN g
    ELSE [g EXCEPT !.money = g.money + Scaled(amount, g.earningsMultiplier)]

\* spendMoney: the game after the call and the value returned
spendMoney(g, amount) ==
    IF amount <= 0 THEN [g |-> g, ret |-> FALSE]
    ELSE IF ~canAfford(g, Scaled(amount, g.costMultiplier)) THEN [g |-> g, ret |-> FALSE]
    ELSE [g |-> [g EXCEPT !.money = g.money - Scaled(amount, g.costMultiplier)], ret |-> TRUE]

processTowerPurchase(g, towerType) == spendMoney(g, getFinalCost(g, TOWER_TYPES[towerType].cost))

----------------------------------------------------------------------------
(* Game: the handlers of the WaveManager's callbacks *)

TypeErrorReward == "TypeError: cannot read properties of null (reading 'reward')"

triggerGameOver(w, isVictory) ==
    Emit([w EXCEPT !.game.gameState = "game_over"], Event("gameOver", isVictory, 0))

handleEnemySpawn(w, type) ==
    Emit([w EXCEPT !.enemies = Append(@, EnemyNew(type, w.game.nextId)),
                   !.game.nextId = @ + 1,
                   !.game.enemiesSpawned = @ + 1],
         Event("spawn", w.game.nextId, type))

handleWaveStart(w, waveNumber) == Emit(w, Event("waveStart", waveNumber, 0))

\* waveData is a sequence: the wave definition, or nothing for null
handleWaveComplete(w, waveNumber, waveData) ==
    Bind([w EXCEPT !.game.wavesCompleted = @ + 1], LAMBDA w1 :
         IF waveData = << >>
         THEN [Emit(w1, Event("waveComplete", waveNumber, [carried |-> 0, credited |-> 0]))
                  EXCEPT !.err = TypeErrorReward]
         ELSE Emit([w1 EXCEPT !.game = addMoney(@, waveData[1].reward)],
                   Event("waveComplete", waveNumber,
                         [carried |-> waveData[1].waveNumber,
                          credited |-> addMoney(w1.game, waveData[1].reward).money
                                       - w1.game.money])))

handleAllWavesComplete(w) == triggerGameOver(Emit(w, Event("allWavesComplete", 0, 0)), TRUE)

handleEnemyReachedEnd(w, i) ==
    Emit([w EXCEPT !.game.lives = @ - 1, !.game.livesLost = @ + 1,
                   !.enemies[i].alive = FALSE],
         Event("lifeLost", w.enemies[i].id, 0))

handleEnemyKilled(w, e) ==
    Emit([w EXCEPT !.game = [addMoney(@, getFinalEarnings(@, e.reward))
                                EXCEPT !.enemiesKilled = @ + 1,
                                       !.moneyEarned = @ + getFinalEarnings(w.game, e.reward)]],
         Event("killReward", e.id, getFinalEarnings(w.game, e.reward)))

----------------------------------------------------------------------------
(* WaveManager *)

totalWaves(mgr) == Len(mgr.waveData)

\* the callbacks, called only when they are set
onEnemySpawn(w, type) == IF w.wm.callbacks THEN handleEnemySpawn(w, type) ELSE w

onWaveStart(w, waveNumber) == IF w.wm.callbacks THEN handleWaveStart(w, waveNumber) ELSE w

onWaveComplete(w, waveNumber, waveData) ==
    IF w.wm.callbacks THEN handleWaveComplete(w, waveNumber, waveData) ELSE w

onAllWavesComplete(w) == IF w.wm.callbacks THEN handleAllWavesComplete(w) ELSE w

\* the current wave definition as a sequence of one, or nothing for null
getCurrentWaveData(mgr) ==
    IF mgr.currentWave >= Len(mgr.waveData) THEN << >>
    ELSE << mgr.waveData[mgr.currentWave + 1] >>

\* the spawn entries of the groups from g on, n entries being queued already
RECURSIVE QueueFrom(_, _, _)
QueueFrom(groups, g, n) ==
    IF g > Len(groups) THEN << >>
    ELSE [i \in 1..groups[g].count |->
             [type |-> groups[g].type, spawnTime |-> (n + i - 1) * groups[g].spawnInterval]]
         \o QueueFrom(groups, g + 1, n + groups[g].count)

shouldShuffleSpawnOrder(mgr) == mgr.currentWave >= 3

\* the shuffle without the rewriting of the spawn times
shuffleSpawnQueue_KeepsTimes(queue, order) == [i \in 1..Len(queue) |-> queue[order[i]]]

\* the queue after a Fisher-Yates shuffle that produced the given order
shuffleSpawnQueue(queue, order) ==
    [i \in 1..Len(queue) |-> [type |-> queue[order[i]].type, spawnTime |-> (i - 1) * 800]]

prepareSpawnQueue_FirstGroup(mgr, waveData, order) ==
    Bind(QueueFrom(SubSeq(waveData.enemies, 1, Min(1, Len(waveData.enemies))), 1, 0),
         LAMBDA queue : [mgr EXCEPT !.enemiesToSpawn = Len(queue), !.spawnQueue = queue])

prepareSpawnQueue(mgr, waveData, order) ==
    Bind(QueueFrom(waveData.enemies, 1, 0), LAMBDA queue :
         [mgr EXCEPT !.enemiesToSpawn = Len(queue),
                    !.spawnQueue = IF shouldShuffleSpawnOrder(mgr)
                                   THEN shuffleSpawnQueue(queue, order) ELSE queue])

\* the orders Math.random can produce when the next wave is prepared (none is
\* drawn while a wave is in progress: no wave can be prepared then)
ShuffleOrders(mgr) ==
    IF getCurrentWaveData(mgr) = << >> \/ mgr.waveInProgress THEN {<< >>}
    ELSE Bind(Len(QueueFrom(getCurrentWaveData(mgr)[1].enemies, 1, 0)), LAMBDA n :
              IF shouldShuffleSpawnOrder(mgr) THEN Permutations(1..n)
              ELSE {[i \in 1..n |-> i]})

\* getNextSpawnDelay without the floor of 500 ms
getNextSpawnDelay_NoFloor(mgr) ==
    IF mgr.enemiesSpawned >= Len(mgr.spawnQueue) THEN 0
    ELSE IF mgr.enemiesSpawned = 0 THEN mgr.spawnQueue[1].spawnTime
    ELSE mgr.spawnQueue[mgr.enemiesSpawned + 1].spawnTime
            - mgr.spawnQueue[mgr.enemiesSpawned].spawnTime

getNextSpawnDelay(mgr) ==
    IF mgr.enemiesSpawned >= Len(mgr.spawnQueue) THEN 0
    ELSE IF mgr.enemiesSpawned = 0 THEN mgr.spawnQueue[1].spawnTime
    ELSE Max(500, mgr.spawnQueue[mgr.enemiesSpawned + 1].spawnTime
                  - mgr.spawnQueue[mgr.enemiesSpawned].spawnTime)

initializeWave(mgr, time, order) ==
    IF getCurrentWaveData(mgr) = << >> THEN mgr
    ELSE Bind([prepareSpawnQueue(mgr, getCurrentWaveData(mgr)[1], order)
                  EXCEPT !.waveInProgress = TRUE, !.waveComplete = FALSE,
                         !.waveStartTime = time, !.enemiesSpawned = 0,
                         !.lastSpawnTime = time],
              LAMBDA m : [m EXCEPT !.nextSpawnTime = time + getNextSpawnDelay(m)])

completeAllWaves(w) ==
    IF w.wm.allWavesComplete THEN w
    ELSE onAllWavesComplete([w EXCEPT !.wm.allWavesComplete = TRUE,
                                          !.wm.isCountingDown = FALSE])

\* startNextWave refuses while a wave is in progress and after the last wave
StartRejected_Never(mgr) == FALSE

StartRejected(mgr) == mgr.waveInProgress \/ mgr.allWavesComplete

startNextWave(w, manual, time, order) ==
    IF StartRejected(w.wm) THEN w
    ELSE IF w.wm.currentWave >= totalWaves(w.wm) THEN completeAllWaves(w)
    ELSE Bind(IF manual /\ w.wm.isCountingDown
              THEN [w.wm EXCEPT !.isCountingDown = FALSE, !.waveCountdown = 0]
              ELSE w.wm,
              LAMBDA m : Then(onWaveStart([w EXCEPT !.wm = initializeWave(m, time, order)],
                                          m.currentWave + 1),
                              LAMBDA w1 : [w1 EXCEPT !.ret = TRUE]))

spawnNextEnemy(w, time) ==
    IF w.wm.enemiesSpawned >= Len(w.wm.spawnQueue) THEN w
    ELSE Bind(onEnemySpawn(w, w.wm.spawnQueue[w.wm.enemiesSpawned + 1].type), LAMBDA w1 :
         Bind([w1.wm EXCEPT !.enemiesSpawned = @ + 1, !.totalEnemiesSpawned = @ + 1,
                            !.lastSpawnTime = time],
              LAMBDA m : [w1 EXCEPT !.wm = [m EXCEPT !.nextSpawnTime = time + getNextSpawnDelay(m)]]))

\* processEnemySpawning spawning a second unit in the same call
processEnemySpawning_Twice(w, time) ==
    IF w.wm.enemiesSpawned >= w.wm.enemiesToSpawn THEN w
    ELSE IF time >= w.wm.nextSpawnTime THEN spawnNextEnemy(spawnNextEnemy(w, time), time)
    ELSE w

processEnemySpawning(w, time) ==
    IF w.wm.enemiesSpawned >= w.wm.enemiesToSpawn THEN w
    ELSE IF time >= w.wm.nextSpawnTime THEN spawnNextEnemy(w, time)
    ELSE w

startWaveCountdown(mgr) ==
    [mgr EXCEPT !.isCountingDown = TRUE, !.waveCountdown = GAME_CONFIG.WAVE_INTERVAL]

\* updateWaveStats(waveTime), called before totalWavesCompleted is incremented
updateWaveStats(mgr, waveTime) ==
    Bind(NumPlus(NumTimes(mgr.averageWaveTime, Finite(mgr.totalWavesCompleted - 1)), Finite(waveTime)),
         LAMBDA totalTime :
             [mgr EXCEPT !.averageWaveTime = NumOver(totalTime, Finite(mgr.totalWavesCompleted)),
                         !.fastestWave = IF NumLess(Finite(waveTime), @) THEN Finite(waveTime) ELSE @,
                         !.slowestWave = IF NumLess(@, Finite(waveTime)) THEN Finite(waveTime) ELSE @])

\* currentWave is advanced before the callback is given getCurrentWaveData()
completeCurrentWave(w, time) ==
    IF w.wm.waveComplete THEN w
    ELSE Bind([w EXCEPT !.wm = [updateWaveStats([@ EXCEPT !.waveComplete = TRUE,
                                                             !.waveInProgress = FALSE],
                                                  time - w.wm.waveStartTime)
                                  EXCEPT !.currentWave = @ + 1, !.totalWavesCompleted = @ + 1]],
              LAMBDA w1 :
                  Then(onWaveComplete(w1, w1.wm.currentWave, getCurrentWaveData(w1.wm)),
                       LAMBDA w2 : IF w2.wm.currentWave < totalWaves(w2.wm)
                                   THEN [w2 EXCEPT !.wm = startWaveCountdown(@)]
                                   ELSE w2))

\* enemies.length === 0 || enemies.every(enemy => !enemy.isAlive())
noEnemiesAlive_Always(es) == TRUE

noEnemiesAlive(es) == Len(es) = 0 \/ \A i \in 1..Len(es) : ~isAlive(es[i])

checkWaveCompletion_NeedsSpawn(w, time) ==
    IF w.wm.waveComplete THEN w
    ELSE IF /\ w.wm.enemiesSpawned > 0
            /\ w.wm.enemiesSpawned >= w.wm.enemiesToSpawn
            /\ noEnemiesAlive(w.enemies)
    THEN completeCurrentWave(w, time)
    ELSE w

checkWaveCompletion(w, time) ==
    IF w.wm.waveComplete THEN w
    ELSE IF w.wm.enemiesSpawned >= w.wm.enemiesToSpawn /\ noEnemiesAlive(w.enemies)
    THEN completeCurrentWave(w, time)
    ELSE w

\* the next wave started once half of the countdown is left
updateCountdown_Early(w, deltaTime, time, order) ==
    IF ~w.wm.isCountingDown THEN w
    ELSE IF 2 * (w.wm.waveCountdown - deltaTime) <= GAME_CONFIG.WAVE_INTERVAL
    THEN startNextWave([w EXCEPT !.wm.isCountingDown = FALSE, !.wm.waveCountdown = 0],
                       FALSE, time, order)
    ELSE [w EXCEPT !.wm.waveCountdown = @ - deltaTime]

updateCountdown(w, deltaTime, time, order) ==
    IF ~w.wm.isCountingDown THEN w
    ELSE IF w.wm.waveCountdown - deltaTime <= 0
    THEN startNextWave([w EXCEPT !.wm.isCountingDown = FALSE, !.wm.waveCountdown = 0],
                       FALSE, time, order)
    ELSE [w EXCEPT !.wm.waveCountdown = @ - deltaTime]

checkAllWavesComplete_Unguarded(w) ==
    IF w.wm.currentWave >= totalWaves(w.wm) /\ ~w.wm.waveInProgress
    THEN onAllWavesComplete([w EXCEPT !.wm.allWavesComplete = TRUE,
                                      !.wm.isCountingDown = FALSE])
    ELSE w

checkAllWavesComplete(w) ==
    IF w.wm.allWavesComplete THEN w
    ELSE IF w.wm.currentWave >= totalWaves(w.wm) /\ ~w.wm.waveInProgress
    THEN completeAllWaves(w)
    ELSE w

\* WaveManager.update(deltaTime, currentEnemies)
WaveManagerUpdate(w, deltaTime, time, order) ==
    Then(Then(updateCountdown(w, deltaTime, time, order),
              LAMBDA w1 : IF w1.wm.waveInProgress
                          THEN Then(processEnemySpawning(w1, time),
                                    LAMBDA w2 : checkWaveCompletion(w2, time))
                          ELSE w1),
         LAMBDA w3 : checkAllWavesComplete(w3))

----------------------------------------------------------------------------
(* Game.update *)

\* the loop over the enemies of updateEntities, from index i on.  A unit
\* whose reachedEnd flag is raised by this update is noted as "reachedEnd"
RECURSIVE UpdateEnemiesFrom(_, _, _)
UpdateEnemiesFrom(w, i, deltaTime) ==
    IF i > Len(w.enemies) \/ w.err # NoError THEN w
    ELSE Bind(EnemyUpdate(w.enemies[i], deltaTime), LAMBDA e :
         Bind(IF e.reachedEnd /\ ~w.enemies[i].reachedEnd
              THEN Emit([w EXCEPT !.enemies[i] = e], Event("reachedEnd", e.id, 0))
              ELSE [w EXCEPT !.enemies[i] = e],
              LAMBDA w1 :
                  Bind(IF hasReachedEnd(e) /\ isAlive(e)
                       THEN handleEnemyReachedEnd(w1, i) ELSE w1,
                       LAMBDA w2 : UpdateEnemiesFrom(w2, i + 1, deltaTime))))

\* the fire check of updateEntities on tower i, after its update
FireCheck(w, i, time) ==
    Bind(CallCanShoot(w.towers[i], time), LAMBDA c :
         IF c.err # NoError THEN [w EXCEPT !.err = c.err]
         ELSE IF ~(c.ret /\ w.towers[i].target # 0) THEN w
         ELSE Bind(shoot(w.towers[i], w.enemies, time, w.game.nextId), LAMBDA r :
                   IF r.err # NoError THEN [w EXCEPT !.err = r.err]
                   ELSE IF r.made = << >> THEN [w EXCEPT !.towers[i] = r.t]
                   ELSE Emit([w EXCEPT !.towers[i] = r.t,
                                       !.projectiles = @ \o r.made,
                                       !.game.nextId = @ + 1,
                                       !.game.projectilesFired = @ + 1],
                             Shot(w.towers[i], time, TRUE))))

\* the loop over the towers of updateEntities, from index i on
RECURSIVE UpdateTowersFrom(_, _, _, _)
UpdateTowersFrom(w, i, deltaTime, time) ==
    IF i > Len(w.towers) \/ w.err # NoError THEN w
    ELSE Bind(TowerUpdate(w.towers[i], w.enemies, deltaTime, time), LAMBDA r :
         Bind([w EXCEPT !.towers[i] = r.t, !.events = @ \o r.events, !.err = r.err],
              LAMBDA w1 :
                  Bind(Then(w1, LAMBDA w2 : FireCheck(w2, i, time)),
                       LAMBDA w3 : UpdateTowersFrom(w3, i + 1, deltaTime, time))))

\* the loop over the projectiles of updateEntities, from index i on
RECURSIVE UpdateProjectilesFrom(_, _, _)
UpdateProjectilesFrom(w, i, deltaTime) ==
    IF i > Len(w.projectiles) \/ w.err # NoError THEN w
    ELSE Bind(ProjectileUpdate(w.projectiles[i], deltaTime, w.enemies), LAMBDA r :
         Bind([w EXCEPT !.projectiles[i] = r.p, !.enemies = r.es, !.dealt = @ \o r.log],
              LAMBDA w1 : UpdateProjectilesFrom(w1, i + 1, deltaTime)))

updateEntities(w, deltaTime, time) ==
    Then(Then(UpdateEnemiesFrom(w, 1, deltaTime),
              LAMBDA w1 : UpdateTowersFrom(w1, 1, deltaTime, time)),
         LAMBDA w2 : UpdateProjectilesFrom(w2, 1, deltaTime))

processInteractions(w) ==
    [w EXCEPT !.projectiles =
        [i \in 1..Len(w.projectiles) |->
            IF w.projectiles[i].hasHit /\ ~w.projectiles[i].processed
            THEN [w.projectiles[i] EXCEPT !.processed = TRUE]
            ELSE w.projectiles[i]]]

\* the filter over the enemies of cleanupEntities, from index i on, the
\* units kept so far being in kept
RECURSIVE CleanupEnemiesFrom(_, _, _)
CleanupEnemiesFrom(w, i, kept) ==
    IF i > Len(w.enemies) THEN [w EXCEPT !.enemies = kept]
    ELSE Bind(w.enemies[i], LAMBDA e :
              IF ~isAlive(e) /\ ~hasReachedEnd(e)
              THEN Bind(IF ~e.rewardProcessed THEN handleEnemyKilled(w, e) ELSE w,
                        LAMBDA w1 : CleanupEnemiesFrom(w1, i + 1, kept))
              ELSE IF hasReachedEnd(e) THEN CleanupEnemiesFrom(w, i + 1, kept)
              ELSE Bind(Append(kept, e), LAMBDA k : CleanupEnemiesFrom(w, i + 1, k)))

cleanupEntities(w) ==
    Bind(CleanupEnemiesFrom(w, 1, << >>), LAMBDA w1 :
         [w1 EXCEPT !.projectiles =
             SelectSeq(w1.projectiles, LAMBDA q : q.active /\ ~q.markedForRemoval)])

checkGameConditions(w) ==
    IF w.game.lives <= 0 THEN triggerGameOver(w, FALSE)
    ELSE IF w.wm.allWavesComplete /\ Len(w.enemies) = 0 THEN triggerGameOver(w, TRUE)
    ELSE w

\* Game.update without its first test: a paused game is updated too
GameUpdate_Unpaused(w, deltaTime, time, order) ==
    Then(Then(Then(Then(WaveManagerUpdate(w, deltaTime, time, order),
                        LAMBDA w1 : updateEntities(w1, deltaTime, time)),
                   LAMBDA w2 : processInteractions(w2)),
              LAMBDA w3 : cleanupEntities(w3)),
         LAMBDA w4 : checkGameConditions(w4))

\* Game.update(deltaTime), run at time `time`
GameUpdate(w, deltaTime, time, order) ==
    IF w.game.isPaused \/ w.game.gameState = "game_over" THEN w
    ELSE Then(Then(Then(Then(WaveManagerUpdate(w, deltaTime, time, order),
                             LAMBDA w1 : updateEntities(w1, deltaTime, time)),
                        LAMBDA w2 : processInteractions(w2)),
                   LAMBDA w3 : cleanupEntities(w3)),
              LAMBDA w4 : checkGameConditions(w4))

----------------------------------------------------------------------------
(* Map, and the placement of towers *)

\* the squared distance from (x, y) to segment i of the route, whose ends
\* differ in one coordinate only
DistanceSquaredToSegment(x, y, i) ==
    Bind(PATH_COORDINATES[i], LAMBDA prev :
    Bind(PATH_COORDINATES[i + 1], LAMBDA curr :
         distanceSquared(x, y,
                         clamp(x, Min(prev[1], curr[1]), Max(prev[1], curr[1])),
                         clamp(y, Min(prev[2], curr[2]), Max(prev[2], curr[2])))))

isOnPath(x, y, tolerance) ==
    \E i \in 1..NumSegments : DistanceSquaredToSegment(x, y, i) <= tolerance * tolerance

pixelToGrid(pixelX, pixelY) ==
    [gridX |-> pixelX \div GAME_CONFIG.GRID_SIZE, gridY |-> pixelY \div GAME_CONFIG.GRID_SIZE]

gridToPixel(gridX, gridY) ==
    [pixelX |-> gridX * GAME_CONFIG.GRID_SIZE + GAME_CONFIG.GRID_SIZE \div 2,
     pixelY |-> gridY * GAME_CONFIG.GRID_SIZE + GAME_CONFIG.GRID_SIZE \div 2]

isValidGridPosition(gridX, gridY) ==
    /\ gridX >= 0 /\ gridX < GAME_CONFIG.CANVAS_WIDTH \div GAME_CONFIG.GRID_SIZE
    /\ gridY >= 0 /\ gridY < GAME_CONFIG.CANVAS_HEIGHT \div GAME_CONFIG.GRID_SIZE

\* half the width of the route (40 px) plus 10 px
PathTolerance == 30

\* a cell is occupied from the start if its centre is on the route, and from
\* the moment a tower is placed on it
isOccupied(g, gridX, gridY) ==
    \/ isOnPath(gridToPixel(gridX, gridY).pixelX, gridToPixel(gridX, gridY).pixelY, PathTolerance)
    \/ <<gridX, gridY>> \in g.towerCells

isValidTowerPlacement_Always(g, gridX, gridY) == TRUE

isValidTowerPlacement(g, gridX, gridY) ==
    isValidGridPosition(gridX, gridY) /\ ~isOccupied(g, gridX, gridY)

\* attemptTowerPlacement(x, y)
attemptTowerPlacement(w, x, y) ==
    Bind(pixelToGrid(x, y), LAMBDA gridPos :
         IF ~isValidTowerPlacement(w.game, gridPos.gridX, gridPos.gridY) THEN w
         ELSE Bind(processTowerPurchase(w.game, w.game.selectedTowerType), LAMBDA bought :
              IF ~bought.ret THEN w
              ELSE Bind(gridToPixel(gridPos.gridX, gridPos.gridY), LAMBDA pixelPos :
                   Emit([w EXCEPT
                           !.towers = Append(@, TowerNew(w.game.selectedTowerType, w.game.nextId,
                                                         pixelPos.pixelX, pixelPos.pixelY)),
                           !.game = [bought.g EXCEPT
                                        !.nextId = @ + 1,
                                        !.towerCells = @ \cup {<<gridPos.gridX, gridPos.gridY>>},
                                        !.towersBuilt = @ + 1,
                                        !.moneySpent = @ + TOWER_TYPES[w.game.selectedTowerType].cost,
                                        !.selectedTowerType = "none"]],
                        Event("towerPlaced", w.game.nextId, w.game.selectedTowerType)))))

\* handleClick(x, y)
handleClick(w, x, y) ==
    IF w.game.gameState = "game_over" \/ w.game.isPaused THEN w
    ELSE IF w.game.selectedTowerType # "none" THEN attemptTowerPlacement(w, x, y)
    ELSE w

togglePause(g) ==
    [g EXCEPT !.isPaused = ~g.isPaused,
              !.gameState = IF ~g.isPaused THEN "paused" ELSE "playing"]

----------------------------------------------------------------------------
(* A single unit driven by arbitrary update and takeDamage calls *)

\* deltaTime of an update call: nothing elapsed, one second, a long stall
UnitDeltaTimes == {0, 1000, 7000}

\* tower damages (constants.js TOWER_TYPES) and two splash amounts
UnitDamages == {25, 40, 80, 7, 28}

UnitInit ==
    /\ \E type \in EnemyKinds : enemies = <<EnemyNew(type, 1)>>
    /\ towers = << >>
    /\ projectiles = << >>
    /\ wm = WaveManagerNew
    /\ game = GameNew
    /\ now = 0
    /\ err = NoError
    /\ last = NothingObserved
    /\ dealt = << >>

UnitUpdate ==
    \E deltaTime \in UnitDeltaTimes :
        /\ enemies' = <<EnemyUpdate(enemies[1], deltaTime)>>
        /\ last' = Observed("update", 1, deltaTime, FALSE, enemies[1], << >>)
        /\ UNCHANGED <<towers, projectiles, wm, game, now, err, dealt>>

UnitTakeDamage ==
    \E damage \in UnitDamages :
        LET r == takeDamage(enemies[1], damage) IN
        /\ enemies' = <<r.e>>
        /\ last' = Observed("takeDamage", 1, damage, r.ret, enemies[1], << >>)
        /\ UNCHANGED <<towers, projectiles, wm, game, now, err, dealt>>

UnitNext == UnitUpdate \/ UnitTakeDamage

SpecUnit == UnitInit /\ [][UnitNext]_vars

----------------------------------------------------------------------------
(* Claims about a single unit *)

\* C8: over any sequence of takeDamage and update calls health never goes
\* below 0 and alive never returns from false to true; takeDamage on a unit
\* that is not alive changes nothing and returns false, and takeDamage
\* returns true exactly on the call that brings health to 0.
C8_DamageOnce ==
    LET e == enemies[1]
        pre == last.pre
    IN  /\ e.health >= 0
        /\ last.op \in {"update", "takeDamage"} =>
              /\ ~pre.alive => ~e.alive
              /\ (last.op = "update") => e.health = pre.health
        /\ last.op = "takeDamage" =>
              /\ ~pre.alive => (e = pre /\ last.ret = FALSE)
              /\ last.ret = (pre.alive /\ e.health = 0)
              /\ last.ret => (pre.alive /\ ~e.alive /\ pre.health > 0)
              /\ (pre.alive /\ ~last.ret) => (e.alive /\ e.health = pre.health - last.arg)

C8_Witness ==
    /\ last.op = "takeDamage"
    /\ last.ret = TRUE
    /\ last.pre.alive
    /\ last.pre.health < last.arg
    /\ enemies[1].health = 0

\* C9: a unit is not alive exactly when its health is 0 or it has reached the end
C9_AliveIff ==
    \A i \in 1..Len(enemies) :
        (~enemies[i].alive) <=> (enemies[i].health = 0 \/ enemies[i].reachedEnd)

C9_Witness ==
    /\ last.op = "update"
    /\ last.pre.alive
    /\ ~enemies[1].alive
    /\ enemies[1].reachedEnd
    /\ enemies[1].health > 0

\* C10: pathProgress never decreases, stays within [0,1], and is left
\* unchanged by an update of a unit that is dead or has reached the end
C10_ProgressMonotone ==
    LET e == enemies[1]
        pre == last.pre
    IN  /\ e.pathProgress >= 0
        /\ e.pathProgress <= ProgressOne
        /\ last.op \in {"update", "takeDamage"} => e.pathProgress >= pre.pathProgress
        /\ (last.op = "update" /\ (~pre.alive \/ pre.reachedEnd)) => e.pathProgress = pre.pathProgress

C10_Witness ==
    /\ last.op = "update"
    /\ last.pre.alive
    /\ last.pre.pathProgress + ProgressIncrement(last.pre, last.arg) > ProgressOne
    /\ enemies[1].pathProgress = ProgressOne

----------------------------------------------------------------------------
(* One projectile in flight toward a group of units, driven by arbitrary   *)
(* update, checkCollisions and hit calls while the units advance           *)

\* the emplacement that fired: centre of grid cell (4, 1), beside the second
\* horizontal stretch of the route
ShooterPosition == [x |-> 4 * GAME_CONFIG.GRID_SIZE + 32, y |-> 1 * GAME_CONFIG.GRID_SIZE + 32]

\* progress of the tracked unit when the shot is fired, thousandths of a px
ProjTargetProgress == 450000

\* how far ahead of the tracked unit the second unit is, thousandths of a px
ProjGaps == {10000, 30000}

\* deltaTime of an update call: a slow frame, a stall
ProjDeltaTimes == {100, 200}

\* flight time, in ms, after which no further update call is considered
ProjHorizon == 400

ProjInit ==
    /\ \E t1 \in {"BASIC", "TANK"}, gap \in ProjGaps, kind \in TowerKinds :
          LET es == << [EnemyNew(t1, 1) EXCEPT !.pathProgress = ProjTargetProgress],
                       [EnemyNew("BASIC", 2) EXCEPT !.pathProgress = ProjTargetProgress + gap] >>
              tt == TOWER_TYPES[kind]
          IN  /\ enemies = es
              /\ projectiles = << ProjectileNew(1, ShooterPosition.x, ShooterPosition.y, 1,
                                                tt.damage, tt.projectileSpeed,
                                                tt.splash, tt.splashRadius, es) >>
    /\ towers = << >>
    /\ wm = WaveManagerNew
    /\ game = GameNew
    /\ now = 0
    /\ err = NoError
    /\ last = NothingObserved
    /\ dealt = << >>

ProjApply(op, arg, result) ==
    \E r \in {result} :
    /\ projectiles' = << r.p >>
    /\ enemies' = r.es
    /\ dealt' = dealt \o r.log
    /\ last' = Observed(op, 1, arg, FALSE, projectiles[1], r.log)
    /\ UNCHANGED <<towers, wm, game, now, err>>

\* projectile.update(deltaTime, enemies) on its own
ProjUpdate ==
    \E deltaTime \in ProjDeltaTimes :
        /\ projectiles[1].timeAlive < ProjHorizon
        /\ ProjApply("update", deltaTime, ProjectileUpdate(projectiles[1], deltaTime, enemies))

\* one frame of the game loop: the units advance, then the projectile is updated
ProjFrame ==
    \E deltaTime \in ProjDeltaTimes :
        /\ projectiles[1].timeAlive < ProjHorizon
        /\ \E es \in {[i \in 1..Len(enemies) |-> EnemyUpdate(enemies[i], deltaTime)]} :
              ProjApply("update", deltaTime, ProjectileUpdate(projectiles[1], deltaTime, es))

ProjCheckCollisions ==
    ProjApply("checkCollisions", 0, checkCollisions(projectiles[1], enemies))

ProjHit ==
    \E i \in 1..Len(enemies) :
        ProjApply("hit", i, hit(projectiles[1], i, enemies))

ProjNext == ProjUpdate \/ ProjFrame \/ ProjCheckCollisions \/ ProjHit

SpecProjectile == ProjInit /\ [][ProjNext]_vars

----------------------------------------------------------------------------
(* Claims about a projectile *)

\* the entries of the record that projectile p made, of the given kind
DealtBy(p, kind) == {k \in 1..Len(dealt) : dealt[k].proj = p /\ dealt[k].kind = kind}

\* C6: a projectile resolves at most once.  Its hasHit flag is set at most
\* once and never cleared, and it applies its direct damage at most once,
\* whatever sequence of update, checkCollisions and hit calls is made on it.
C6_HitOnce ==
    /\ \A i \in 1..Len(projectiles) :
          LET p == projectiles[i] IN
          /\ Cardinality(DealtBy(p.id, "resolve")) <= 1
          /\ Cardinality(DealtBy(p.id, "direct")) <= 1
          /\ p.hasHit <=> Cardinality(DealtBy(p.id, "resolve")) = 1
          /\ p.hasHit => ~p.active /\ p.markedForRemoval
    /\ last.op \in {"update", "checkCollisions", "hit"} /\ last.pre.hasHit =>
          /\ projectiles[1].hasHit
          /\ last.events = << >>

C6_Witness ==
    /\ last.op = "hit"
    /\ last.pre.hasHit
    /\ projectiles[1].hasHit
    /\ Cardinality(DealtBy(1, "direct")) = 1

\* C7: when a splash projectile resolves, the unit it directly hit is
\* excluded from the splash: every unit receives from the projectile either
\* the direct damage or one splash amount, never both.
C7_DirectOrSplash ==
    \A i \in 1..Len(projectiles) : \A u \in 1..Len(enemies) :
        Cardinality({k \in 1..Len(dealt) :
                        /\ dealt[k].proj = projectiles[i].id
                        /\ dealt[k].unit = enemies[u].id
                        /\ dealt[k].kind \in {"direct", "splash"}}) <= 1

\* a splash projectile struck a unit that survived the direct damage, and
\* the other unit, inside the radius, took a splash amount
C7_Witness ==
    /\ projectiles[1].splash
    /\ \E k \in DealtBy(1, "direct") :
          /\ enemies[IndexOfId(enemies, dealt[k].unit)].alive
          /\ \E j \in DealtBy(1, "splash") : dealt[j].unit # dealt[k].unit

----------------------------------------------------------------------------
(* The game: the frames of the game loop and the player's inputs *)

\* Date.now() when the page is loaded: later than any cooldown after time 0
StartTime == 10000

\* the time after which no further frame is considered
MaxTime == 90000

\* the time between two frames
TickDeltaTimes == {8000}

\* the cells the player clicks (at their centres): a free cell beside the
\* start of the route and a cell of the route
ClickCells == {<<2, 3>>, <<0, 4>>}

Init ==
    /\ enemies = << >>
    /\ towers = << >>
    /\ projectiles = << >>
    /\ wm = setCallbacks(WaveManagerNew)
    /\ game = GameNew
    /\ now = StartTime
    /\ err = NoError
    /\ last = NothingObserved
    /\ dealt = << >>

TheWorld == World(wm, enemies, towers, projectiles, game, dealt)

\* what a claim needs of the state before a frame or an input
Before ==
    [lives |-> game.lives, money |-> game.money, isPaused |-> game.isPaused,
     gameState |-> game.gameState, currentWave |-> wm.currentWave,
     waveInProgress |-> wm.waveInProgress, allWavesComplete |-> wm.allWavesComplete,
     towers |-> Len(towers), enemies |-> Len(enemies)]

Become(op, arg, r) ==
    /\ wm' = r.wm
    /\ enemies' = r.enemies
    /\ towers' = r.towers
    /\ projectiles' = r.projectiles
    /\ game' = r.game
    /\ dealt' = r.dealt
    /\ err' = r.err
    /\ last' = Observed(op, 0, arg, FALSE, Before, r.events)

\* one frame of the game loop (main.js gameLoop).  An error raised by
\* Game.update is caught by the loop, which then stops asking for frames
Tick ==
    /\ err = NoError
    /\ now < MaxTime
    /\ \E deltaTime \in TickDeltaTimes, order \in ShuffleOrders(wm) :
          /\ now' = now + deltaTime
          /\ \E r \in {GameUpdate(TheWorld, deltaTime, now + deltaTime, order)} :
                Become("tick", deltaTime, r)

\* the start-wave button or the space bar: Game.startNextWave()
StartWave ==
    /\ \E order \in ShuffleOrders(wm) :
          \E r \in {startNextWave(TheWorld, TRUE, now, order)} :
              Become("startWave", 0, [r EXCEPT !.err = err])
    /\ UNCHANGED now

\* a tower button: Game.selectTowerType(type)
SelectTower ==
    /\ \E type \in TowerKinds :
          /\ game' = [game EXCEPT !.selectedTowerType = type]
          /\ last' = Observed("selectTower", 0, type, FALSE, Before, << >>)
    /\ UNCHANGED <<enemies, towers, projectiles, wm, now, err, dealt>>

\* a click on the canvas: Game.handleClick(x, y)
Click ==
    /\ \E cell \in ClickCells :
          \E r \in {handleClick(TheWorld, gridToPixel(cell[1], cell[2]).pixelX,
                                gridToPixel(cell[1], cell[2]).pixelY)} :
              Become("click", cell, [r EXCEPT !.err = err])
    /\ UNCHANGED now

\* the pause button or the P key: Game.togglePause()
TogglePause ==
    /\ game' = togglePause(game)
    /\ last' = Observed("togglePause", 0, 0, FALSE, Before, << >>)
    /\ UNCHANGED <<enemies, towers, projectiles, wm, now, err, dealt>>

Next == Tick \/ StartWave \/ SelectTower \/ Click \/ TogglePause

Spec == Init /\ [][Next]_vars

----------------------------------------------------------------------------
(* Claims about the game *)

\* the events of the given kind delivered by the last frame or input
Delivered(ev) == EventsOf(last.events, ev)

\* C2: every unit whose progress reaches 1 causes exactly one life-loss
\* event in the frame in which it reaches the end (handleEnemyReachedEnd
\* runs once for it and lives decreases by one), and never a kill reward
C2_LifeLostOncePerArrival ==
    last.op = "tick" =>
        /\ \A k \in 1..Len(Delivered("reachedEnd")) :
              /\ Len(SelectSeq(Delivered("lifeLost"),
                               LAMBDA e : e.a = Delivered("reachedEnd")[k].a)) = 1
              /\ Len(SelectSeq(Delivered("killReward"),
                               LAMBDA e : e.a = Delivered("reachedEnd")[k].a)) = 0
        /\ game.lives = last.pre.lives - Len(Delivered("reachedEnd"))

\* C3: a frame of a game that holds at least one active tower completes
\* without raising an error
C3_TickWithTowerCompletes ==
    (last.op = "tick" /\ last.pre.towers >= 1) => err = NoError

\* C4: when a wave completes, currentWave advances by exactly one; if more
\* waves remain the countdown starts at the fixed duration, otherwise all
\* waves are marked complete and all-waves-completed is emitted exactly once
\* within the same update, the wave-completed handler raising no error
C4_WaveCompletionAdvances ==
    (last.op = "tick" /\ Len(Delivered("waveComplete")) > 0) =>
        /\ wm.currentWave = last.pre.currentWave + 1
        /\ err # TypeErrorReward
        /\ IF wm.currentWave < totalWaves(wm)
           THEN wm.isCountingDown /\ wm.waveCountdown = GAME_CONFIG.WAVE_INTERVAL
           ELSE wm.allWavesComplete /\ Len(Delivered("allWavesComplete")) = 1

\* C5: the wave-completed event of a wave carries that wave's own
\* definition, and the reward credited is that wave's reward; this is
\* defined for every wave, the last one included
C5_OwnWaveDefinition ==
    \A k \in 1..Len(Delivered("waveComplete")) :
        /\ Delivered("waveComplete")[k].b.carried = Delivered("waveComplete")[k].a
        /\ Delivered("waveComplete")[k].b.credited
              = WAVE_DATA[Delivered("waveComplete")[k].a].reward

----------------------------------------------------------------------------
(* A tower and the units in front of it: the calls that can reach shoot() *)

\* the cell of the tower, beside the first two segments of the route
TowerCell == <<2, 3>>

\* the progress of the unit when the tower is placed: at the start of the
\* route, and 120 px along it
TowerProgresses == {0, 120000}

TowerDeltaTimes == {100, 500}

\* how long after StartTime frames are considered, in ms
TowerHorizon == 2000

TowerInit ==
    /\ \E type \in TowerKinds, kind \in EnemyKinds, progress \in TowerProgresses :
          /\ towers = << TowerNew(type, 1, gridToPixel(TowerCell[1], TowerCell[2]).pixelX,
                                  gridToPixel(TowerCell[1], TowerCell[2]).pixelY) >>
          /\ enemies = << [EnemyNew(kind, 2) EXCEPT !.pathProgress = progress] >>
    /\ projectiles = << >>
    /\ wm = WaveManagerNew
    /\ game = [GameNew EXCEPT !.nextId = 3]
    /\ now = StartTime
    /\ err = NoError
    /\ last = NothingObserved
    /\ dealt = << >>

\* the units after their update of a frame
UnitsAfter(deltaTime) == [i \in 1..Len(enemies) |-> EnemyUpdate(enemies[i], deltaTime)]

\* the tower part of a frame of Game.updateEntities: the units move, then
\* the tower is updated and the fire check of the game runs on it
TowerFrame ==
    /\ now < StartTime + TowerHorizon
    /\ \E deltaTime \in TowerDeltaTimes :
          /\ now' = now + deltaTime
          /\ \E r \in {UpdateTowersFrom(World(wm, UnitsAfter(deltaTime), towers, projectiles,
                                              game, dealt),
                                        1, deltaTime, now + deltaTime)} :
                /\ enemies' = r.enemies
                /\ towers' = r.towers
                /\ projectiles' = r.projectiles
                /\ game' = r.game
                /\ err' = r.err
                /\ last' = Observed("frame", 1, deltaTime, FALSE, towers[1], r.events)
    /\ UNCHANGED <<wm, dealt>>

\* Tower.update called on its own
TowerUpdateCall ==
    /\ now < StartTime + TowerHorizon
    /\ \E deltaTime \in TowerDeltaTimes :
          /\ now' = now + deltaTime
          /\ \E r \in {TowerUpdate(towers[1], enemies, deltaTime, now + deltaTime)} :
                /\ towers' = << r.t >>
                /\ err' = r.err
                /\ last' = Observed("update", 1, deltaTime, FALSE, towers[1], r.events)
    /\ UNCHANGED <<enemies, projectiles, wm, game, dealt>>

\* Tower.shoot called on its own; the projectile it returns is the caller's
TowerShoot ==
    /\ \E r \in {shoot(towers[1], enemies, now, game.nextId)} :
          /\ towers' = << r.t >>
          /\ err' = r.err
          /\ last' = Observed("shoot", 1, 0, r.made # << >>, towers[1],
                              IF r.made # << >> THEN << Shot(towers[1], now, FALSE) >>
                              ELSE << >>)
    /\ UNCHANGED <<enemies, projectiles, wm, game, now, dealt>>

\* the unit in front of the tower is killed between two calls
TowerUnitDies ==
    /\ \E i \in 1..Len(enemies) :
          /\ enemies[i].alive
          /\ enemies' = [enemies EXCEPT ![i] = takeDamage(enemies[i], enemies[i].health).e]
          /\ last' = Observed("takeDamage", enemies[i].id, 0, FALSE, towers[1], << >>)
    /\ UNCHANGED <<towers, projectiles, wm, game, now, err, dealt>>

TowerNext == TowerFrame \/ TowerUpdateCall \/ TowerShoot \/ TowerUnitDies

SpecTower == TowerInit /\ [][TowerNext]_vars

----------------------------------------------------------------------------
(* The wave scheduler driven by update and startNextWave calls, the live   *)
(* set being what the caller gives it                                       *)

\* wave 3 of constants.js WAVE_DATA, whole
ThirdWave ==
    [waveNumber |-> 3, reward |-> 100,
     enemies |-> << [type |-> "BASIC", count |-> 10, spawnInterval |-> 800],
                    [type |-> "TANK", count |-> 3, spawnInterval |-> 2000] >>]

\* wave definitions without units: no group, and a group of no unit
EmptyWave == [waveNumber |-> 1, reward |-> 0, enemies |-> << >>]

ZeroCountWave ==
    [waveNumber |-> 2, reward |-> 0,
     enemies |-> << [type |-> "BASIC", count |-> 0, spawnInterval |-> 1000] >>]

\* the wave tables given to new WaveManager(waveData)
WaveSchedules ==
    { << ThirdWave >>, << EmptyWave, WaveTable[1] >>, << WaveTable[1], ZeroCountWave >>,
      WaveTable }

\* the scheduler of the game (default table, callbacks of the game), and
\* schedulers built on their own with a table, no callback being set
WaveSetups ==
    {setCallbacks(WaveManagerNew)} \cup {WaveManagerFor(table) : table \in WaveSchedules}

WaveDeltaTimes == {4000, 8000}

\* how long after StartTime calls are considered, in ms
WaveHorizon == 68000

\* the same for a scheduler with more than one wave, whose statistics keep
\* the times of the waves played
TableHorizon == 40000

HorizonOf(mgr) == IF Len(mgr.waveData) = 1 THEN WaveHorizon ELSE TableHorizon

\* the largest live set a caller builds by itself
MaxLive == 2

WaveInit ==
    /\ wm \in WaveSetups
    /\ enemies = << >>
    /\ towers = << >>
    /\ projectiles = << >>
    /\ game = GameNew
    /\ now = StartTime
    /\ err = NoError
    /\ last = NothingObserved
    /\ dealt = << >>

\* the scheduler and the live set before a call
WaveBefore == [wm |-> wm, enemies |-> enemies]

WaveBecome(op, arg, r) ==
    /\ wm' = r.wm
    /\ enemies' = r.enemies
    /\ game' = r.game
    /\ err' = r.err
    /\ last' = Observed(op, 0, arg, r.ret, WaveBefore, r.events)
    /\ UNCHANGED <<towers, projectiles, dealt>>

\* WaveManager.update(deltaTime, currentEnemies)
WaveUpdate ==
    /\ now < StartTime + HorizonOf(wm)
    /\ \E deltaTime \in WaveDeltaTimes, order \in ShuffleOrders(wm) :
          /\ now' = now + deltaTime
          /\ \E r \in {WaveManagerUpdate(TheWorld, deltaTime, now + deltaTime, order)} :
                WaveBecome("update", deltaTime, [r EXCEPT !.ret = FALSE])

\* WaveManager.startNextWave(manual)
WaveStart ==
    /\ \E manual \in BOOLEAN, order \in ShuffleOrders(wm) :
          \E r \in {startNextWave(TheWorld, manual, now, order)} :
              WaveBecome("startNextWave", manual, r)
    /\ UNCHANGED now

\* the caller puts a unit in the live set of a scheduler without callbacks
LiveUnitJoins ==
    /\ ~wm.callbacks
    /\ Len(enemies) < MaxLive
    /\ enemies' = Append(enemies, EnemyNew("BASIC", Len(enemies) + 1))
    /\ last' = Observed("join", Len(enemies) + 1, 0, FALSE, WaveBefore, << >>)
    /\ UNCHANGED <<towers, projectiles, wm, game, now, err, dealt>>

\* the first unit alive in the live set is killed
LiveUnitDies ==
    /\ \E i \in 1..Len(enemies) :
          /\ isAlive(enemies[i])
          /\ \A j \in 1..(i - 1) : ~isAlive(enemies[j])
          /\ enemies' = [enemies EXCEPT ![i] = takeDamage(enemies[i], enemies[i].health).e]
          /\ last' = Observed("kill", enemies[i].id, 0, FALSE, WaveBefore, << >>)
    /\ UNCHANGED <<towers, projectiles, wm, game, now, err, dealt>>

WaveNext == WaveUpdate \/ WaveStart \/ LiveUnitJoins \/ LiveUnitDies

SpecWave == WaveInit /\ [][WaveNext]_vars

----------------------------------------------------------------------------
(* Claims about the wave scheduler *)

\* the last call was made on the scheduler
WaveCall == last.op \in {"update", "startNextWave"}

\* the scheduler before the last call
Was == last.pre.wm

\* the sum of the counts of the groups from g on
RECURSIVE GroupTotal(_, _)
GroupTotal(groups, g) ==
    IF g > Len(groups) THEN 0 ELSE groups[g].count + GroupTotal(groups, g + 1)

\* the number of units of the wave that mgr plays or is about to play
UnitsOfWave(mgr) == GroupTotal(mgr.waveData[mgr.currentWave + 1].enemies, 1)

NoneAlive(es) == \A i \in 1..Len(es) : ~es[i].alive

\* the last call marked a wave complete
MarkedComplete ==
    /\ WaveCall
    /\ \/ wm.currentWave # Was.currentWave
       \/ Was.waveInProgress /\ ~wm.waveInProgress
       \/ Len(Delivered("waveComplete")) > 0

\* C11: a wave is never marked complete (waveInProgress cleared, currentWave
\* advanced, wave-completed emitted) while a queued unit of the wave is
\* unspawned or a unit of the live set given to the scheduler is alive
C11_CompleteOnlyWhenDone ==
    MarkedComplete =>
        /\ last.op = "update"
        /\ wm.enemiesSpawned >= Len(wm.spawnQueue)
        /\ wm.enemiesSpawned >= wm.enemiesToSpawn
        /\ NoneAlive(enemies)

\* an update found the whole queue spawned and a unit alive, and left the
\* wave in progress
C11_Witness ==
    /\ last.op = "update"
    /\ wm.waveInProgress
    /\ wm.enemiesToSpawn > 0
    /\ wm.enemiesSpawned >= wm.enemiesToSpawn
    /\ ~NoneAlive(enemies)

\* C12: the spawn queue of a wave has as many entries as the counts of its
\* groups add up to, and so has enemiesToSpawn (13 for 10 BASIC and 3 TANK);
\* once all of them are spawned and no unit of the live set is alive, the
\* next update marks the wave complete
C12_QueueLengthAndCompletion ==
    /\ wm.waveInProgress =>
          /\ Len(wm.spawnQueue) = UnitsOfWave(wm)
          /\ wm.enemiesToSpawn = UnitsOfWave(wm)
    /\ ( /\ last.op = "update"
         /\ Was.waveInProgress
         /\ Was.enemiesSpawned >= Was.enemiesToSpawn
         /\ NoneAlive(last.pre.enemies) ) =>
            /\ wm.waveComplete
            /\ ~wm.waveInProgress
            /\ wm.currentWave = Was.currentWave + 1

\* the 13 units of the wave of 10 BASIC and 3 TANK were spawned, and the
\* update after the last unit alive died marked the wave complete
C12_Witness ==
    /\ last.op = "update"
    /\ Was.waveInProgress
    /\ Was.enemiesToSpawn = 13
    /\ Was.enemiesSpawned = 13
    /\ wm.waveComplete

\* C13: startNextWave returns false and changes nothing of the scheduler (no
\* new queue, counters and flags as before, no wave-started event) when a
\* wave is in progress or all waves are complete
C13_RejectedStartChangesNothing ==
    (last.op = "startNextWave" /\ (Was.waveInProgress \/ Was.allWavesComplete)) =>
        /\ last.ret = FALSE
        /\ wm = Was
        /\ enemies = last.pre.enemies
        /\ last.events = << >>

\* startNextWave was called while a wave with units to spawn was in progress
C13_Witness ==
    /\ last.op = "startNextWave"
    /\ Was.waveInProgress
    /\ Was.enemiesSpawned < Was.enemiesToSpawn
    /\ last.ret = FALSE

\* C14: whenever startNextWave is accepted while the countdown between
\* waves runs, the countdown is cancelled: isCountingDown is false and the
\* remaining countdown is 0 afterwards, whatever the manual flag is
C14_AcceptedStartCancelsCountdown ==
    (last.op = "startNextWave" /\ last.ret /\ Was.isCountingDown) =>
        /\ ~wm.isCountingDown
        /\ wm.waveCountdown = 0

\* C15: once allWavesComplete is true, no update and no startNextWave call
\* changes currentWave, waveInProgress, isCountingDown, the spawn queue or
\* the spawned count, spawns a unit or emits all-waves-completed again
C15_AllCompleteIsTerminal ==
    (WaveCall /\ Was.allWavesComplete) =>
        /\ wm = Was
        /\ enemies = last.pre.enemies
        /\ Len(Delivered("spawn")) = 0
        /\ Len(Delivered("allWavesComplete")) = 0

\* an update ran on a scheduler whose waves were all complete, the callbacks
\* of the game being set
C15_Witness ==
    /\ last.op = "update"
    /\ Was.allWavesComplete
    /\ Was.callbacks

\* C16: starting a wave whose definition has no group, or groups of no unit,
\* raises no error and spawns no unit, and the wave is marked complete by
\* the first update at which no unit of the live set is alive
C16_EmptyWaveCompletesAtOnce ==
    /\ (last.op = "startNextWave" /\ last.ret /\ UnitsOfWave(wm) = 0) =>
          /\ err = NoError
          /\ wm.waveInProgress
          /\ wm.spawnQueue = << >>
          /\ wm.enemiesToSpawn = 0
    /\ (last.op = "update" /\ Was.waveInProgress /\ UnitsOfWave(Was) = 0) =>
          /\ err = NoError
          /\ wm.totalEnemiesSpawned = Was.totalEnemiesSpawned
          /\ enemies = last.pre.enemies
          /\ IF NoneAlive(last.pre.enemies)
             THEN wm.waveComplete /\ ~wm.waveInProgress
             ELSE wm.waveInProgress /\ wm.currentWave = Was.currentWave

\* a wave without units, started while a unit was alive, was marked complete
\* by an update after the unit died
C16_Witness ==
    /\ last.op = "update"
    /\ Was.waveInProgress
    /\ UnitsOfWave(Was) = 0
    /\ Len(enemies) > 0
    /\ wm.waveComplete

----------------------------------------------------------------------------
(* The player placing towers: tower buttons and clicks on the canvas *)

\* the points of the canvas the player clicks: the centres of three free
\* cells, a second point of the first of them, the centre of a cell of the
\* route, a point above and left of the canvas, and a point of the strip
\* right of the last column (800 = 12 * 64 + 32)
PlacePoints ==
    {<<160, 224>>, <<130, 200>>, <<96, 96>>, <<352, 352>>, <<32, 288>>, <<-5, 10>>, <<790, 590>>}

PlaceInit == Init

PlaceBefore == [towers |-> towers, game |-> game]

\* Game.selectTowerType(type), from a tower button
PlaceSelect ==
    /\ \E type \in TowerKinds :
          /\ game' = [game EXCEPT !.selectedTowerType = type]
          /\ last' = Observed("selectTowerType", 0, type, FALSE, PlaceBefore, << >>)
    /\ UNCHANGED <<enemies, towers, projectiles, wm, now, err, dealt>>

\* Game.handleClick(x, y), from a click on the canvas
PlaceClick ==
    /\ \E point \in PlacePoints :
          \E r \in {handleClick(TheWorld, point[1], point[2])} :
              /\ towers' = r.towers
              /\ game' = r.game
              /\ err' = r.err
              /\ last' = Observed("handleClick", 0, point, FALSE, PlaceBefore, r.events)
    /\ UNCHANGED <<enemies, projectiles, wm, now, dealt>>

PlaceNext == PlaceSelect \/ PlaceClick

SpecPlacement == PlaceInit /\ [][PlaceNext]_vars

----------------------------------------------------------------------------
(* Claims about the placement of towers *)

\* the cell of the grid a point of the canvas lies in
CellAt(x, y) == <<pixelToGrid(x, y).gridX, pixelToGrid(x, y).gridY>>

\* the cells the towers of a list stand on
CellsOf(ts) == {CellAt(ts[i].x, ts[i].y) : i \in 1..Len(ts)}

\* the last operation was a click with a tower type selected
PlacementAttempt == last.op = "handleClick" /\ last.pre.game.selectedTowerType # "none"

ClickedCell == CellAt(last.arg[1], last.arg[2])

OnTower == ClickedCell \in CellsOf(last.pre.towers)

InRouteBuffer ==
    isOnPath(ClickedCell[1] * 64 + 32, ClickedCell[2] * 64 + 32, 30)

OutsideGrid == ~(ClickedCell[1] \in 0..11 /\ ClickedCell[2] \in 0..8)

InsufficientFunds ==
    last.pre.game.money < TOWER_TYPES[last.pre.game.selectedTowerType].cost

\* C17: a placement attempt on a cell that holds a tower, lies in the buffer
\* of the route or outside the grid, or with less money than the tower costs,
\* leaves the towers, the occupied cells and the money as they were; and no
\* two towers ever stand on the same cell of the grid
C17_RejectedPlacementChangesNothing ==
    /\ (PlacementAttempt /\ (OnTower \/ InRouteBuffer \/ OutsideGrid \/ InsufficientFunds))
          => /\ towers = last.pre.towers
             /\ game.towerCells = last.pre.game.towerCells
             /\ game.money = last.pre.game.money
    /\ \A i, j \in 1..Len(towers) :
          i # j => CellAt(towers[i].x, towers[i].y) # CellAt(towers[j].x, towers[j].y)
    /\ game.towerCells = CellsOf(towers)

\* a second tower, which the player can afford, refused on the cell of the first
C17_Witness ==
    /\ PlacementAttempt
    /\ OnTower /\ ~InsufficientFunds /\ ~InRouteBuffer /\ ~OutsideGrid
    /\ last.arg = <<130, 200>>
    /\ Len(towers) = 1

----------------------------------------------------------------------------
(* A tower choosing among the units of a list *)

\* how far along the route the units are: 40, 140 and 220 px.  The tower
\* stands at (160, 224); the units at 140 and at 220 px, at (120, 300) and
\* (200, 300), are equally far from it, and the unit at 40 px, at (20, 300),
\* is farther and still within the range of a SNIPER tower
TargetProgresses == {40000, 140000, 220000}

\* the damage the units have taken: none, 60, or all of their health
TargetWounds == {0, 60, 100}

\* the modes asked for: the four policies and a string that is none of them
RequestedModes == TargetingModes \cup {"CLOSEST_TO_END"}

NumTargets == 3

TargetUnit(id, progress, wound) ==
    IF wound = 0 THEN [EnemyNew("BASIC", id) EXCEPT !.pathProgress = progress]
    ELSE takeDamage([EnemyNew("BASIC", id) EXCEPT !.pathProgress = progress], wound).e

\* a SNIPER tower (range 180) on cell (9, 0), at (608, 32), and units 696 and
\* 697 px along the route, at (500, 176) and (500, 177): the first is at
\* distance 180 exactly (108, 144, 180), the second just beyond
BoundaryCell == <<9, 0>>

BoundaryProgresses == {696000, 697000}

\* the towers and the places of the units they are tried with
TargetSetups ==
    {[cell |-> TowerCell, type |-> "SNIPER", progresses |-> TargetProgresses],
     [cell |-> BoundaryCell, type |-> "SNIPER", progresses |-> BoundaryProgresses]}

TargetInit ==
    /\ \E setup \in TargetSetups :
          /\ towers = << TowerNew(setup.type, 1, gridToPixel(setup.cell[1], setup.cell[2]).pixelX,
                                  gridToPixel(setup.cell[1], setup.cell[2]).pixelY) >>
          /\ \E progress \in [1..NumTargets -> setup.progresses],
                wound \in [1..NumTargets -> TargetWounds] :
                enemies = [i \in 1..NumTargets |-> TargetUnit(i + 1, progress[i], wound[i])]
    /\ projectiles = << >>
    /\ wm = WaveManagerNew
    /\ game = [GameNew EXCEPT !.nextId = NumTargets + 2]
    /\ now = StartTime
    /\ err = NoError
    /\ last = NothingObserved
    /\ dealt = << >>

\* tower.setTargetingMode(mode)
TargetSetMode ==
    /\ \E mode \in RequestedModes :
          /\ towers' = << setTargetingMode(towers[1], mode) >>
          /\ last' = Observed("setTargetingMode", 1, mode, FALSE, towers[1], << >>)
    /\ UNCHANGED <<enemies, projectiles, wm, game, now, err, dealt>>

\* tower.findTarget(enemies)
TargetFind ==
    /\ towers' = << findTarget(towers[1], enemies) >>
    /\ last' = Observed("findTarget", 1, 0, FALSE, towers[1], << >>)
    /\ UNCHANGED <<enemies, projectiles, wm, game, now, err, dealt>>

\* the unit the tower tracks is killed: enemy.takeDamage(health)
TargetDies ==
    /\ towers[1].target # 0
    /\ \E i \in {IndexOfId(enemies, towers[1].target)} :
          /\ enemies[i].alive
          /\ enemies' = [enemies EXCEPT ![i] = takeDamage(enemies[i], enemies[i].health).e]
    /\ last' = Observed("takeDamage", towers[1].target, 0, FALSE, towers[1], << >>)
    /\ UNCHANGED <<towers, projectiles, wm, game, now, err, dealt>>

TargetNext == TargetSetMode \/ TargetFind \/ TargetDies

SpecTarget == TargetInit /\ [][TargetNext]_vars

----------------------------------------------------------------------------
(* Claims about the targeting of a tower *)

\* C18: setTargetingMode with a string that is none of the four policies
\* leaves the policy and the rest of the tower as they were; with one of the
\* four it changes the policy and nothing else
C18_OnlyKnownModesAreSet ==
    last.op = "setTargetingMode" =>
        towers[1] = IF last.arg \in {"closest_to_end", "closest_to_tower", "strongest", "weakest"}
                    THEN [last.pre EXCEPT !.targetingMode = last.arg]
                    ELSE last.pre

\* a tower set to weakest is asked for a mode that does not exist
C18_Witness ==
    /\ last.op = "setTargetingMode"
    /\ last.arg = "CLOSEST_TO_END"
    /\ last.pre.targetingMode = "weakest"
    /\ last.pre.target # 0

\* the units a tower may choose: alive and within its range
Candidates(t) ==
    {i \in 1..Len(enemies) :
        /\ enemies[i].alive
        /\ (EnemyPosition(enemies[i]).x - t.x) * (EnemyPosition(enemies[i]).x - t.x)
             + (EnemyPosition(enemies[i]).y - t.y) * (EnemyPosition(enemies[i]).y - t.y)
             <= t.range * t.range}

\* what the policy of the tower makes as small as it can
PolicyCost(t, e) ==
    CASE t.targetingMode = "closest_to_end" -> ProgressOne - e.pathProgress
      [] t.targetingMode = "closest_to_tower" ->
            (EnemyPosition(e).x - t.x) * (EnemyPosition(e).x - t.x)
              + (EnemyPosition(e).y - t.y) * (EnemyPosition(e).y - t.y)
      [] t.targetingMode = "strongest" -> 0 - e.health
      [] t.targetingMode = "weakest" -> e.health

Optimal(t) ==
    {i \in Candidates(t) : \A j \in Candidates(t) : PolicyCost(t, enemies[i]) <= PolicyCost(t, enemies[j])}

FirstOptimal(t) == CHOOSE i \in Optimal(t) : \A j \in Optimal(t) : i <= j

\* a tower without a target has just looked for one
Selection == last.op = "findTarget" /\ last.pre.target = 0

\* C20: under each policy the tower chooses, among the units alive and in
\* range, the first of the list that attains the optimum of the policy (least
\* route left, least distance to the tower, most health, least health), and
\* none if there is no such unit
C20_FirstOptimalCandidate ==
    Selection =>
        towers[1].target = IF Candidates(last.pre) = {} THEN 0
                           ELSE enemies[FirstOptimal(last.pre)].id

\* the tower chose the second unit of the list, which the third equals and
\* the first does not attain
C20_Witness ==
    /\ Selection
    /\ last.pre.targetingMode = "closest_to_tower"
    /\ Optimal(last.pre) = {2, 3}
    /\ Candidates(last.pre) = {1, 2, 3}
    /\ towers[1].target = enemies[2].id
    /\ enemies[2].pathProgress # enemies[3].pathProgress

\* the units of the list that are alive and at most range away from tower t
\* (the squares of whole numbers compare as the distances do)
WithinReach(t) ==
    {i \in 1..Len(enemies) :
        /\ enemies[i].alive
        /\ (EnemyPosition(enemies[i]).x - t.x) * (EnemyPosition(enemies[i]).x - t.x)
             + (EnemyPosition(enemies[i]).y - t.y) * (EnemyPosition(enemies[i]).y - t.y)
             <= t.range * t.range}

\* C21: after every findTarget the tower has no target if and only if no
\* alive unit of the list is at most range away from it (a unit at the very
\* range counts); otherwise its target is an alive unit at most range away
C21_TargetIffUnitInRange ==
    last.op = "findTarget" =>
        /\ towers[1].target = 0 <=> WithinReach(towers[1]) = {}
        /\ towers[1].target # 0 =>
              \E i \in WithinReach(towers[1]) : enemies[i].id = towers[1].target

\* the only unit within reach is at the very range, and the tower took it
\* after the unit it tracked had been killed
C21_Witness ==
    /\ last.op = "findTarget"
    /\ last.pre.target # 0 /\ last.pre.target # towers[1].target
    /\ WithinReach(towers[1]) = {3}
    /\ enemies[3].pathProgress = 696000
    /\ towers[1].target = enemies[3].id

----------------------------------------------------------------------------
(* A shot fired from the emplacement, from the very place of the unit it   *)
(* aims at, or at no unit, in the frames of the game                       *)

\* the centre of a cell of the grid, as a position
Emplacement(gridX, gridY) ==
    [x |-> gridToPixel(gridX, gridY).pixelX, y |-> gridToPixel(gridX, gridY).pixelY]

\* where the shot is fired from: the emplacement, the position of the first
\* unit, and the cells beside the two ends of the route, (0, 3) and (11, 2)
ShotOrigins(es) == {ShooterPosition, EnemyPosition(es[1]), Emplacement(0, 3), Emplacement(11, 2)}

\* how far along the route the first unit is when the shot is fired: in the
\* middle of the playfield, at the start of the route, at (-20, 300), and
\* 30 px before its end, at (790, 200)
ShotProgresses == {ProjTargetProgress, 0, ProgressOne - 30000}

\* the unit aimed at: the first unit, the second, or none (0)
ShotTargets == {1, 2, 0}

ShotDeltaTimes == {100, 200}

\* the time, in ms, after which no further frame is considered
ShotHorizon == 600

\* how far ahead of the first unit the second is, thousandths of a px: within
\* the splash radius of a projectile that strikes the first, and beyond it
ShotGaps == {10000, 70000}

ShotInit ==
    /\ \E t1 \in {"BASIC", "TANK"}, kind \in TowerKinds, target \in ShotTargets,
          progress \in ShotProgresses, gap \in ShotGaps :
          LET es == << [EnemyNew(t1, 1) EXCEPT !.pathProgress = progress],
                       [EnemyNew("BASIC", 2) EXCEPT !.pathProgress = progress + gap] >>
              tt == TOWER_TYPES[kind]
          IN  /\ enemies = es
              /\ \E from \in ShotOrigins(es) :
                    projectiles = << ProjectileNew(3, from.x, from.y, target,
                                                   tt.damage, tt.projectileSpeed,
                                                   tt.splash, tt.splashRadius, es) >>
    /\ towers = << >>
    /\ wm = WaveManagerNew
    /\ game = [GameNew EXCEPT !.nextId = 4]
    /\ now = 0
    /\ err = NoError
    /\ last = NothingObserved
    /\ dealt = << >>

\* the projectile an operation found, if there was one
ShotBefore == IF Len(projectiles) > 0 THEN projectiles[1] ELSE NoRec

\* Game.updateEntities(deltaTime): every unit is updated, then every
\* projectile (there is no tower)
ShotFrame ==
    /\ now < ShotHorizon
    /\ \E deltaTime \in ShotDeltaTimes :
          /\ now' = now + deltaTime
          /\ \E r \in {updateEntities(World(wm, enemies, towers, projectiles, game, dealt),
                                      deltaTime, now + deltaTime)} :
                /\ enemies' = r.enemies
                /\ projectiles' = r.projectiles
                /\ game' = r.game
                /\ err' = r.err
                /\ dealt' = r.dealt
                /\ last' = Observed("update", Len(projectiles), deltaTime, FALSE, ShotBefore,
                                    SubSeq(r.dealt, Len(dealt) + 1, Len(r.dealt)))
    /\ UNCHANGED <<towers, wm>>

\* Game.cleanupEntities()
ShotCleanup ==
    /\ \E r \in {cleanupEntities(World(wm, enemies, towers, projectiles, game, dealt))} :
          /\ enemies' = r.enemies
          /\ projectiles' = r.projectiles
          /\ game' = r.game
          /\ err' = r.err
          /\ last' = Observed("cleanupEntities", Len(projectiles), 0, FALSE, ShotBefore, r.events)
    /\ UNCHANGED <<towers, wm, now, dealt>>

\* a unit is killed by another shot: enemy.takeDamage(health)
ShotUnitDies ==
    /\ \E i \in 1..Len(enemies) :
          /\ enemies[i].alive
          /\ enemies' = [enemies EXCEPT ![i] = takeDamage(enemies[i], enemies[i].health).e]
          /\ last' = Observed("takeDamage", enemies[i].id, 0, FALSE, ShotBefore, << >>)
    /\ UNCHANGED <<towers, projectiles, wm, game, now, err, dealt>>

ShotNext == ShotFrame \/ ShotCleanup \/ ShotUnitDies

SpecShot == ShotInit /\ [][ShotNext]_vars

----------------------------------------------------------------------------
(* Claims about a shot fired at no distance *)

\* the projectile was constructed on its aim point: it has not flown and is
\* where the unit it aimed at was (or where it was fired, with no unit)
PointBlank(p) == p.timeAlive = 0 /\ p.x = p.tx /\ p.y = p.ty

\* C19: a projectile constructed at no distance from its aim point is
\* inactive from its creation, no later update moves it or makes it apply
\* damage, no error is raised, and the next cleanup takes it out of the
\* projectiles of the game
C19_PointBlankShotIsInert ==
    /\ \A i \in 1..Len(projectiles) :
          PointBlank(projectiles[i]) =>
              /\ ~projectiles[i].active
              /\ \A k \in 1..Len(dealt) : dealt[k].proj # projectiles[i].id
    /\ (last.op = "update" /\ last.who = 1 /\ PointBlank(last.pre)) =>
          /\ projectiles = << last.pre >>
          /\ last.events = << >>
          /\ err = NoError
    /\ (last.op = "cleanupEntities" /\ last.who = 1 /\ PointBlank(last.pre)) =>
          /\ projectiles = << >>
          /\ dealt = << >>
          /\ err = NoError

\* the second update of a projectile fired from the place of its unit, which
\* it still touches
C19_Witness ==
    /\ last.op = "update" /\ last.who = 1
    /\ PointBlank(last.pre)
    /\ last.pre.target = 1
    /\ now >= 200
    /\ enemies[1].alive
    /\ checkCollisionWithEnemy(last.pre, enemies[1])

----------------------------------------------------------------------------
(* checkCollisionWithEnemy on a projectile and a unit a few px apart *)

\* how far the projectile is from the unit along each axis, in px: (5, 12)
\* is at distance 13, the radius of a BASIC unit (10) plus that of the
\* projectile (3); (13, 0) too, and (0, 12) is at the 9 + 3 of a FAST unit.
\* A TANK unit reaches 12.5 + 3 = 15.5, between 15 and 16
CollisionOffsets == {-13, -12, -5, 0, 5, 12, 13, 14, 15, 16}

CollisionInit ==
    /\ \E kind \in EnemyKinds, dx \in CollisionOffsets, dy \in CollisionOffsets :
          LET es == << [EnemyNew(kind, 1) EXCEPT !.pathProgress = ProjTargetProgress] >>
          IN  /\ enemies = es
              /\ projectiles = << ProjectileNew(2, EnemyPosition(es[1]).x + dx,
                                                EnemyPosition(es[1]).y + dy, 1,
                                                TOWER_TYPES.BASIC.damage,
                                                TOWER_TYPES.BASIC.projectileSpeed,
                                                FALSE, 0, es) >>
    /\ towers = << >>
    /\ wm = WaveManagerNew
    /\ game = GameNew
    /\ now = 0
    /\ err = NoError
    /\ last = NothingObserved
    /\ dealt = << >>

\* projectile.checkCollisionWithEnemy(enemy)
CollisionCheck ==
    /\ last' = Observed("checkCollisionWithEnemy", 2, 1,
                        checkCollisionWithEnemy(projectiles[1], enemies[1]),
                        projectiles[1], << >>)
    /\ UNCHANGED <<enemies, towers, projectiles, wm, game, now, err, dealt>>

CollisionNext == CollisionCheck

SpecCollision == CollisionInit /\ [][CollisionNext]_vars

\* twice the distance between two points is at most d: the distance is at
\* most d / 2
TwiceWithin(ax, ay, bx, by, d) ==
    4 * ((ax - bx) * (ax - bx) + (ay - by) * (ay - by)) <= d * d

\* C22: checkCollisionWithEnemy returns true if and only if the centre of the
\* projectile is at most the radius of the unit (size / 2) plus half the size
\* of the projectile away from the centre of the unit, that distance included
C22_CollisionIffWithinRadii ==
    last.op = "checkCollisionWithEnemy" =>
        (last.ret <=> TwiceWithin(projectiles[1].x, projectiles[1].y,
                                  EnemyPosition(enemies[1]).x, EnemyPosition(enemies[1]).y,
                                  ENEMY_TYPES[enemies[1].type].size + 6))

\* a projectile at (5, 12) from a BASIC unit: distance 13 = 10 + 3
C22_Witness ==
    /\ last.op = "checkCollisionWithEnemy"
    /\ last.ret
    /\ enemies[1].type = "BASIC"
    /\ projectiles[1].x - EnemyPosition(enemies[1]).x = 5
    /\ projectiles[1].y - EnemyPosition(enemies[1]).y = 12

\* the projectile is past its lifetime, past its reach, or off the playfield
Expired(p) ==
    \/ p.timeAlive > 5000
    \/ p.distanceTraveled > 1000
    \/ ~(p.x >= 0 /\ p.x < 800 /\ p.y >= 0 /\ p.y < 600)

\* C23: a projectile whose age exceeds 5000 ms, whose travelled distance
\* exceeds 1000 px or whose position after the update lies off the playfield
\* is inactive after that update and has applied no damage in it (and, being
\* inactive, applies none later)
C23_ExpiredShotDealsNothing ==
    /\ (last.op = "update" /\ last.who = 1 /\ last.pre.active /\ Expired(projectiles[1])) =>
          /\ ~projectiles[1].active
          /\ last.events = << >>
    /\ (last.op = "update" /\ last.who = 1 /\ ~last.pre.active) => last.events = << >>

\* the units the last update damaged, and the unit it struck directly
DamagedNow == {last.events[k].unit : k \in {j \in 1..Len(last.events) : last.events[j].kind \in {"direct", "splash"}}}

StruckNow == {last.events[k].unit : k \in {j \in 1..Len(last.events) : last.events[j].kind = "direct"}}

\* the unit at index i was alive when the last update checked the
\* collisions: it is still alive, or the update damaged it
AliveAtCheck(i) == enemies[i].alive \/ enemies[i].id \in DamagedNow

\* the projectile, where the update left it, touches the unit at index i
Touches(i) == TwiceWithin(projectiles[1].x, projectiles[1].y,
                          EnemyPosition(enemies[i]).x, EnemyPosition(enemies[i]).y,
                          enemies[i].size + projectiles[1].size)

\* the unit the projectile tracked was in the list and alive at the check
TrackedAtCheck ==
    /\ last.pre.target # 0
    /\ \E i \in 1..Len(enemies) : enemies[i].id = last.pre.target /\ AliveAtCheck(i)

ShotUpdated == last.op = "update" /\ last.who = 1 /\ Len(projectiles) = 1

\* C24: while the unit it tracks is alive a projectile strikes that unit or
\* none, whatever other units it touches; when the tracked unit is dead or
\* gone it strikes the first unit of the list that is alive and that it
\* touches
C24_StrikesTrackedUnitFirst ==
    ShotUpdated =>
        /\ TrackedAtCheck => StruckNow \subseteq {last.pre.target}
        /\ ~TrackedAtCheck =>
              \A i \in 1..Len(enemies) :
                  enemies[i].id \in StruckNow <=>
                      /\ last.pre.active
                      /\ last.pre.timeAlive + last.arg <= 5000
                      /\ AliveAtCheck(i) /\ Touches(i)
                      /\ \A j \in 1..(i - 1) : ~(AliveAtCheck(j) /\ Touches(j))

\* the projectile touches the first unit while the second, which it tracks,
\* is alive and out of its touch: it strikes nothing
C24_Witness ==
    /\ ShotUpdated
    /\ Len(enemies) = 2
    /\ last.pre.active /\ last.pre.target = 2
    /\ enemies[1].alive /\ enemies[2].alive
    /\ Touches(1) /\ ~Touches(2)
    /\ last.events = << >>
    /\ projectiles[1].active

\* the amounts of splash damage the last update dealt to the unit at index i
SplashNow(i) ==
    {last.events[k].amount : k \in {j \in 1..Len(last.events) :
                                       /\ last.events[j].kind = "splash"
                                       /\ last.events[j].unit = enemies[i].id}}

\* floor(sd * (1 - d / r)) for a distance d <= r whose square is d2: the
\* number of the j in 1..sd with j <= sd * (1 - d / r), that is, with
\* sd * d <= r * (sd - j)
ScaledSplash(d2, sd, r) ==
    Cardinality({j \in 1..sd : sd * sd * d2 <= r * r * (sd - j) * (sd - j)})

\* the square of the distance from the projectile, where it resolved, to the
\* unit at index i
FromImpact(i) ==
    (EnemyPosition(enemies[i]).x - projectiles[1].x) * (EnemyPosition(enemies[i]).x - projectiles[1].x)
      + (EnemyPosition(enemies[i]).y - projectiles[1].y) * (EnemyPosition(enemies[i]).y - projectiles[1].y)

\* what the unit at index i is due from the splash of the projectile.  No
\* projectile kills a unit at full health, so a unit that is dead after the
\* update was dead before it
SplashDue(i) ==
    IF /\ projectiles[1].splash /\ projectiles[1].splashRadius > 0
       /\ enemies[i].alive
       /\ enemies[i].id \notin StruckNow
       /\ FromImpact(i) <= projectiles[1].splashRadius * projectiles[1].splashRadius
    THEN ScaledSplash(FromImpact(i), (projectiles[1].damage * 7) \div 10, projectiles[1].splashRadius)
    ELSE 0

\* C25: when a projectile resolves, every alive unit other than the struck
\* one at distance d <= splashRadius of the projectile takes exactly
\* floor(floor(damage * 0.7) * (1 - d / splashRadius)) if that is positive,
\* and nothing otherwise; units farther away, dead units, and every unit when
\* splash is off or the radius is 0, take no splash damage
C25_SplashAmount ==
    (ShotUpdated /\ StruckNow # {}) =>
        \A i \in 1..Len(enemies) :
            /\ SplashNow(i) = IF SplashDue(i) > 0 THEN {SplashDue(i)} ELSE {}
            /\ enemies[i].id \notin StruckNow /\ enemies[i].alive =>
                  enemies[i].health = enemies[i].maxHealth - SplashDue(i)

\* a splash projectile struck the first unit, and the second, 10 px from it,
\* took part of the 28 of the splash
C25_Witness ==
    /\ ShotUpdated /\ StruckNow = {1}
    /\ Len(enemies) = 2
    /\ SplashDue(2) > 0 /\ SplashDue(2) < 28
    /\ SplashNow(2) = {SplashDue(2)}

----------------------------------------------------------------------------
(* Claims about what a tower fires at *)

\* tower t tracks a unit of the list that is alive and at most range away
TracksUnitWithinReach(t) == \E i \in WithinReach(t) : enemies[i].id = t.target

\* the unit the tower tracked before the call is dead, gone, or out of range
\* now that the call has run
TrackedUnitLost ==
    /\ last.pre.target # 0
    /\ ~TracksUnitWithinReach(last.pre)

----------------------------------------------------------------------------
(* Two projectiles in flight at two units, in the frames of the game: what *)
(* the second does to a unit the first has killed in the same frame         *)

\* the damage the units have taken before the projectiles are fired
VolleyWounds == {0, 80}

\* where the first unit is and where the projectiles are fired from: the
\* unit in the middle of the playfield and the shooter beside it, and the
\* unit 5 px before the end of the route with the shooter in cell (11, 3)
VolleySetups ==
    { [progress |-> ProjTargetProgress, from |-> ShooterPosition],
      [progress |-> ProgressOne - 5000, from |-> Emplacement(11, 3)] }

\* how far behind the first unit the second is, thousandths of a px
VolleyGap == 10000

VolleyDeltaTimes == {100, 200}

\* the time, in ms, after which no further frame is considered
VolleyHorizon == 400

VolleyInit ==
    /\ \E setup \in VolleySetups, w1 \in VolleyWounds, w2 \in VolleyWounds,
          k1 \in TowerKinds, k2 \in TowerKinds, a1 \in {1, 2}, a2 \in {1, 2} :
          LET es == << TargetUnit(1, setup.progress, w1),
                       TargetUnit(2, setup.progress - VolleyGap, w2) >>
          IN  /\ enemies = es
              /\ projectiles =
                    << ProjectileNew(3, setup.from.x, setup.from.y, a1,
                                     TOWER_TYPES[k1].damage, TOWER_TYPES[k1].projectileSpeed,
                                     TOWER_TYPES[k1].splash, TOWER_TYPES[k1].splashRadius, es),
                       ProjectileNew(4, setup.from.x, setup.from.y, a2,
                                     TOWER_TYPES[k2].damage, TOWER_TYPES[k2].projectileSpeed,
                                     TOWER_TYPES[k2].splash, TOWER_TYPES[k2].splashRadius, es) >>
    /\ towers = << >>
    /\ wm = WaveManagerNew
    /\ game = [GameNew EXCEPT !.nextId = 5]
    /\ now = 0
    /\ err = NoError
    /\ last = NothingObserved
    /\ dealt = << >>

\* Game.updateEntities(deltaTime), then Game.cleanupEntities(), as a frame of
\* the game runs them; the units and projectiles the frame found, and the
\* state between the two calls, are kept for the record
VolleyFrame ==
    /\ now < VolleyHorizon
    /\ \E deltaTime \in VolleyDeltaTimes :
          /\ now' = now + deltaTime
          /\ \E u \in {updateEntities(World(wm, enemies, towers, projectiles, game, dealt),
                                      deltaTime, now + deltaTime)} :
             \E r \in {cleanupEntities(processInteractions(u))} :
                /\ enemies' = r.enemies
                /\ projectiles' = r.projectiles
                /\ game' = r.game
                /\ err' = r.err
                /\ dealt' = r.dealt
                /\ last' = Observed("frame", Len(projectiles), deltaTime, FALSE,
                                    [enemies |-> enemies, projectiles |-> projectiles,
                                     updated |-> u.enemies, game |-> game,
                                     log |-> SubSeq(r.dealt, Len(dealt) + 1, Len(r.dealt))],
                                    r.events)
    /\ UNCHANGED <<towers, wm>>

VolleyNext == VolleyFrame

SpecVolley == VolleyInit /\ [][VolleyNext]_vars

----------------------------------------------------------------------------
(* Claims about a unit that died or arrived earlier in the same frame *)

\* the record of the damage the projectiles of the last frame dealt, in the
\* order in which it was dealt
FrameLog == last.pre.log

\* the damage dealt to unit u by the first k entries of the record
RECURSIVE DealtTo(_, _)
DealtTo(u, k) ==
    IF k = 0 THEN 0
    ELSE DealtTo(u, k - 1) + (IF FrameLog[k].unit = u THEN FrameLog[k].amount ELSE 0)

\* the unit with identity u as the frame found it, and after the units were
\* updated
FoundUnit(u) == last.pre.enemies[IndexOfId(last.pre.enemies, u)]
UpdatedUnit(u) == last.pre.updated[IndexOfId(last.pre.updated, u)]

\* C27: within one frame, once a unit has died (its health is used up) or
\* has reached the end, nothing processed later in that frame affects it:
\* every damage of the frame, direct or splash, goes to a unit that was
\* alive when the frame began, has not arrived, and had health left after
\* all the damage dealt before in that frame, whatever the order of the
\* projectiles
C27_DeadUnitIsLeftAlone ==
    last.op = "frame" =>
        \A k \in 1..Len(FrameLog) :
            FrameLog[k].kind # "resolve" =>
                /\ IndexOfId(last.pre.enemies, FrameLog[k].unit) # 0
                /\ FoundUnit(FrameLog[k].unit).alive
                /\ ~UpdatedUnit(FrameLog[k].unit).reachedEnd
                /\ DealtTo(FrameLog[k].unit, k - 1) < FoundUnit(FrameLog[k].unit).health

\* projectile p of the frame, after its move, overlapped unit u
Overlapped(p, u) ==
    \E q \in {ProjectileUpdate(last.pre.projectiles[p], last.arg, last.pre.updated).p} :
        4 * ((q.x - EnemyPosition(UpdatedUnit(u)).x) * (q.x - EnemyPosition(UpdatedUnit(u)).x)
             + (q.y - EnemyPosition(UpdatedUnit(u)).y) * (q.y - EnemyPosition(UpdatedUnit(u)).y))
          <= (UpdatedUnit(u).size + q.size) * (UpdatedUnit(u).size + q.size)

\* both projectiles tracked unit 1 and reached it in the same frame: the
\* first killed it, and the second, for which the dead unit was no candidate,
\* struck unit 2
C27_Witness ==
    /\ last.op = "frame"
    /\ Len(last.pre.projectiles) = 2
    /\ last.pre.projectiles[1].target = 1 /\ last.pre.projectiles[2].target = 1
    /\ Len(FrameLog) >= 4
    /\ FrameLog[2] = [proj |-> 3, unit |-> 1, kind |-> "direct",
                       amount |-> last.pre.projectiles[1].damage]
    /\ FoundUnit(1).alive /\ FoundUnit(1).health <= FrameLog[2].amount
    /\ \E k \in 3..Len(FrameLog) :
          FrameLog[k].proj = 4 /\ FrameLog[k].kind = "direct" /\ FrameLog[k].unit = 2
    /\ Overlapped(2, 1)

----------------------------------------------------------------------------
(* Claims about the frames of a paused game *)

\* the step is a frame of the game loop: only a frame advances the clock
FrameStep == last'.op = "tick" /\ now' # now

\* C28: while the game is paused, or over, Game.update changes no state of
\* the simulation: the units, the towers, the projectiles, the wave
\* scheduler, the lives and the money are after the call what they were
\* before it
C28_PausedFrameChangesNothing ==
    [][(FrameStep /\ (game.isPaused \/ game.gameState = "game_over"))
          => UNCHANGED <<enemies, towers, projectiles, wm, game, err, dealt>>]_vars

\* a frame has run on a paused game whose wave is under way with units on
\* the route, long enough after the previous spawn for the next to be due
C28_Witness ==
    /\ last.op = "tick"
    /\ last.pre.isPaused /\ game.isPaused
    /\ wm.waveInProgress
    /\ Len(enemies) > 0
    /\ Len(wm.spawnQueue) > 0
    /\ now >= wm.nextSpawnTime

----------------------------------------------------------------------------
(* Claims about the units a frame removes *)

\* the units the last frame found, by identity
FoundUnits == {last.pre.enemies[i].id : i \in 1..Len(last.pre.enemies)}

\* the damage dealt to unit u in the last frame used up its health
KilledInFrame(u) == DealtTo(u, Len(FrameLog)) >= FoundUnit(u).health

\* the kill rewards of the last frame that are for unit u
RewardsFor(u) == SelectSeq(Delivered("killReward"), LAMBDA e : e.a = u)

\* C29: every unit killed by damage yields exactly one kill reward and is
\* out of the list of units by the end of the frame in which it died; a unit
\* that reached the end is out of the list by the end of that frame, without
\* a reward; every other unit stays, and after the cleanup the list holds
\* alive units only
C29_KilledOnceRewardedAndRemoved ==
    last.op = "frame" =>
        /\ \A u \in FoundUnits :
              /\ KilledInFrame(u) =>
                    /\ Len(RewardsFor(u)) = 1
                    /\ RewardsFor(u)[1].b = ENEMY_TYPES[FoundUnit(u).type].reward
                    /\ IndexOfId(enemies, u) = 0
              /\ UpdatedUnit(u).reachedEnd =>
                    /\ Len(RewardsFor(u)) = 0
                    /\ IndexOfId(enemies, u) = 0
              /\ (~KilledInFrame(u) /\ ~UpdatedUnit(u).reachedEnd) =>
                    /\ Len(RewardsFor(u)) = 0
                    /\ IndexOfId(enemies, u) # 0
        /\ \A i \in 1..Len(enemies) : enemies[i].alive /\ enemies[i].id \in FoundUnits
        /\ game.money = last.pre.game.money
                          + Len(Delivered("killReward")) * ENEMY_TYPES["BASIC"].reward
        /\ game.enemiesKilled = last.pre.game.enemiesKilled + Len(Delivered("killReward"))

\* in one frame the first unit reached the end and the second was killed by
\* a projectile: both are gone, and the one reward is for the second
C29_Witness ==
    /\ last.op = "frame"
    /\ FoundUnits = {1, 2}
    /\ UpdatedUnit(1).reachedEnd
    /\ KilledInFrame(2)
    /\ Len(enemies) = 0
    /\ Len(Delivered("killReward")) = 1
    /\ game.money = GAME_CONFIG.STARTING_MONEY + ENEMY_TYPES["BASIC"].reward

----------------------------------------------------------------------------
(* The spawns of one wave, frame by frame *)

\* the cap on the number of units of one group of the waves below
SpawnGroupCount == 2

\* wave 7 of constants.js WAVE_DATA, its groups cut to SpawnGroupCount units:
\* the units of its first group are 400 ms apart
SeventhWave ==
    [waveNumber |-> 7, reward |-> 250,
     enemies |-> << [type |-> "BASIC", count |-> Min(30, SpawnGroupCount), spawnInterval |-> 400],
                    [type |-> "TANK", count |-> Min(12, SpawnGroupCount), spawnInterval |-> 1000],
                    [type |-> "FAST", count |-> Min(8, SpawnGroupCount), spawnInterval |-> 2000] >>]

\* a wave whose second group has the shorter interval: the offsets of its
\* queue, 0, 1500, 600, 900, go back where the group changes
FallingWave ==
    [waveNumber |-> 1, reward |-> 0,
     enemies |-> << [type |-> "TANK", count |-> 2, spawnInterval |-> 1500],
                    [type |-> "FAST", count |-> 2, spawnInterval |-> 300] >>]

SpawnSchedules == { << SeventhWave >>, << FallingWave >>, << WaveTable[1], WaveTable[2] >> }

\* deltaTime of an update call: two short frames, and a stall longer than
\* the intervals of the waves
SpawnDeltaTimes == {100, 400, 1700}

\* how long after StartTime calls are considered, in ms
SpawnHorizon == 4000

SpawnInit ==
    /\ wm \in {WaveManagerFor(table) : table \in SpawnSchedules}
               \cup {setCallbacks(WaveManagerFor(table)) : table \in SpawnSchedules}
    /\ enemies = << >>
    /\ towers = << >>
    /\ projectiles = << >>
    /\ game = GameNew
    /\ now = StartTime
    /\ err = NoError
    /\ last = NothingObserved
    /\ dealt = << >>

\* WaveManager.update(deltaTime, currentEnemies), a frame after the other
SpawnUpdate ==
    /\ now < StartTime + SpawnHorizon
    /\ \E deltaTime \in SpawnDeltaTimes, order \in ShuffleOrders(wm) :
          /\ now' = now + deltaTime
          /\ \E r \in {WaveManagerUpdate(TheWorld, deltaTime, now + deltaTime, order)} :
                WaveBecome("update", deltaTime, [r EXCEPT !.ret = FALSE])

SpawnNext == SpawnUpdate \/ WaveStart

SpecSpawn == SpawnInit /\ [][SpawnNext]_vars

----------------------------------------------------------------------------
(* Claims about the times of the spawns of a wave *)

\* the offset of the k-th unit of the queue of the wave
Offset(k) == wm.spawnQueue[k].spawnTime

\* how long after the spawn of unit k the next unit is due
DueAfter(k) == IF Offset(k + 1) - Offset(k) > 500 THEN Offset(k + 1) - Offset(k) ELSE 500

\* the last call spawned a unit of the wave that was under way
SpawnedInWave ==
    /\ last.op = "update"
    /\ Was.waveInProgress
    /\ wm.waveStartTime = Was.waveStartTime
    /\ wm.enemiesSpawned = Was.enemiesSpawned + 1

\* C30: within a wave the first unit of the queue is scheduled at its own
\* offset after the start of the wave, and each later unit k at
\* max(500 ms, offset[k] - offset[k-1]) after the spawn before it; no unit is
\* spawned before the time it is scheduled at, so that two consecutive
\* spawns of a wave are never less than 500 ms apart
C30_SpawnsAtLeastHalfASecondApart ==
    /\ (wm.waveInProgress /\ wm.enemiesSpawned = 0 /\ Len(wm.spawnQueue) > 0)
          => wm.nextSpawnTime = wm.waveStartTime + Offset(1)
    /\ (wm.waveInProgress /\ wm.enemiesSpawned > 0
          /\ wm.enemiesSpawned < Len(wm.spawnQueue))
          => wm.nextSpawnTime = wm.lastSpawnTime + DueAfter(wm.enemiesSpawned)
    /\ SpawnedInWave =>
          /\ now >= Was.nextSpawnTime
          /\ wm.lastSpawnTime = now
          /\ Was.enemiesSpawned > 0 => now - Was.lastSpawnTime >= 500
    /\ (last.op = "update" /\ Was.waveInProgress /\ now < Was.nextSpawnTime)
          => wm.enemiesSpawned = Was.enemiesSpawned

\* the second unit of wave 7, whose offset is 400 ms after the first, has
\* been spawned 500 ms after the first, and the third, whose offset is
\* 1600 ms later, is scheduled 1600 ms after it
C30_Witness ==
    /\ SpawnedInWave
    /\ wm.waveData = << SeventhWave >>
    /\ wm.enemiesSpawned = 2
    /\ Offset(2) - Offset(1) = 400
    /\ now - Was.lastSpawnTime = 500
    /\ wm.nextSpawnTime = now + 1600

----------------------------------------------------------------------------
(* Claims about the spawn queue of a wave *)

\* the groups of the wave under way
GroupsInPlay == wm.waveData[wm.currentWave + 1].enemies

\* the group that unit i of the wave belongs to, counting from group g
RECURSIVE GroupOf(_, _)
GroupOf(g, i) ==
    IF i <= GroupsInPlay[g].count THEN g ELSE GroupOf(g + 1, i - GroupsInPlay[g].count)

\* entry i of the groups expanded in their order: the running index times
\* the interval of its own group
Expanded(i) ==
    [type |-> GroupsInPlay[GroupOf(1, i)].type,
     spawnTime |-> (i - 1) * GroupsInPlay[GroupOf(1, i)].spawnInterval]

\* how many entries of the queue, and of the expansion, are of the given type
QueuedOfType(type) ==
    Cardinality({i \in 1..Len(wm.spawnQueue) : wm.spawnQueue[i].type = type})
ExpandedOfType(type) ==
    Cardinality({i \in 1..GroupTotal(GroupsInPlay, 1) : Expanded(i).type = type})

\* C31: for every wave of index 3 or more the spawn queue is a permutation
\* of the expanded entries (each type as often as the counts of its groups,
\* the length unchanged) and entry i has offset i * 800 ms; the waves of
\* index below 3 keep the order of the expansion and the offsets computed
C31_ShuffledFromFourthWave ==
    wm.waveInProgress =>
        /\ Len(wm.spawnQueue) = GroupTotal(GroupsInPlay, 1)
        /\ \A type \in EnemyKinds : QueuedOfType(type) = ExpandedOfType(type)
        /\ IF wm.currentWave >= 3
           THEN \A i \in 1..Len(wm.spawnQueue) : wm.spawnQueue[i].spawnTime = (i - 1) * 800
           ELSE \A i \in 1..Len(wm.spawnQueue) : wm.spawnQueue[i] = Expanded(i)

\* the fourth wave is under way with its TANK ahead of its BASIC units: the
\* order of the expansion was not kept
C31_Witness ==
    /\ wm.waveInProgress
    /\ wm.currentWave = 3
    /\ Len(wm.spawnQueue) >= 2
    /\ wm.spawnQueue[1].type = "TANK"
    /\ Expanded(1).type = "BASIC"
    /\ wm.spawnQueue[2].spawnTime = 800

----------------------------------------------------------------------------
(* The EconomyManager driven by arbitrary calls *)

\* the amounts given to addMoney and spendMoney
EconomyAmounts == {-50, 0, 150}

\* the multipliers given to setMultipliers (earnings, then costs), in tenths
EconomyMultipliers == {<<10, 10>>, <<20, 5>>, <<5, 20>>, <<0, 0>>}

\* the balance above which no more money is added
MaxMoney == 700

\* setMultipliers(earningsMultiplier, costMultiplier): each is at least 0.1
setMultipliers(g, earnings, cost) ==
    [g EXCEPT !.earningsMultiplier = Max(1, earnings), !.costMultiplier = Max(1, cost)]

EconomyAdd ==
    /\ game.money < MaxMoney
    /\ \E amount \in EconomyAmounts :
          /\ game' = addMoney(game, amount)
          /\ last' = Observed("addMoney", 0, amount, FALSE, game, << >>)
    /\ UNCHANGED <<enemies, towers, projectiles, wm, now, err, dealt>>

EconomySpend ==
    /\ \E amount \in EconomyAmounts :
          \E r \in {spendMoney(game, amount)} :
              /\ game' = r.g
              /\ last' = Observed("spendMoney", 0, amount, r.ret, game, << >>)
    /\ UNCHANGED <<enemies, towers, projectiles, wm, now, err, dealt>>

EconomyPurchase ==
    /\ \E type \in TowerKinds :
          \E r \in {processTowerPurchase(game, type)} :
              /\ game' = r.g
              /\ last' = Observed("processTowerPurchase", 0, type, r.ret, game, << >>)
    /\ UNCHANGED <<enemies, towers, projectiles, wm, now, err, dealt>>

EconomySetMultipliers ==
    /\ \E m \in EconomyMultipliers :
          /\ game' = setMultipliers(game, m[1], m[2])
          /\ last' = Observed("setMultipliers", 0, m, FALSE, game, << >>)
    /\ UNCHANGED <<enemies, towers, projectiles, wm, now, err, dealt>>

EconomyNext == EconomyAdd \/ EconomySpend \/ EconomyPurchase \/ EconomySetMultipliers

\* the manager of a new game
SpecEconomy == Init /\ [][EconomyNext]_vars

----------------------------------------------------------------------------
(* Claims about the balance *)

\* C32: the balance is never negative after any sequence of addMoney,
\* spendMoney, processTowerPurchase and setMultipliers calls, and a
\* spendMoney call that returns false leaves the balance unchanged
C32_BalanceNeverNegative ==
    /\ game.money >= 0
    /\ (last.op = "spendMoney" /\ ~last.ret) => game.money = last.pre.money

\* the part of C32 that the program keeps: a refused spendMoney or
\* processTowerPurchase leaves the balance as it was
C32_RefusedSpendingChangesNothing ==
    (last.op \in {"spendMoney", "processTowerPurchase"} /\ ~last.ret)
        => game.money = last.pre.money

----------------------------------------------------------------------------
(* Claims about the shots a tower records *)

\* the shots recorded by the towers of the game, from tower i on
RECURSIVE ShotsRecorded(_)
ShotsRecorded(i) ==
    IF i > Len(towers) THEN 0 ELSE towers[i].shotsFired + ShotsRecorded(i + 1)

----------------------------------------------------------------------------
(* Claims about the states of the wave scheduler *)

\* how many of the three flags of the scheduler are raised
FlagsRaised ==
    (IF wm.waveInProgress THEN 1 ELSE 0) + (IF wm.isCountingDown THEN 1 ELSE 0)
      + (IF wm.allWavesComplete THEN 1 ELSE 0)

\* C34: in every state of the scheduler at most one of waveInProgress,
\* isCountingDown and allWavesComplete is true, after any interleaving of
\* update calls and startNextWave calls with either manual flag
C34_AtMostOneSchedulerFlag == FlagsRaised <= 1

\* the part of C34 that the program keeps: a scheduler that has completed
\* all its waves neither plays a wave nor counts down
C34_AllCompleteExcludesTheOthers ==
    wm.allWavesComplete => ~wm.waveInProgress /\ ~wm.isCountingDown

----------------------------------------------------------------------------
(* Claims about the counters of the spawn queue *)

\* the units the last call spawned, by the count the scheduler keeps
SpawnedByCall == wm.totalEnemiesSpawned - Was.totalEnemiesSpawned

\* C35: in every state of the scheduler 0 <= enemiesSpawned <=
\* enemiesToSpawn = the length of the spawn queue; one update spawns at most
\* one unit; and the units of a wave are spawned in the order of the queue,
\* each entry exactly once (the unit spawned is the entry that follows the
\* one spawned before it, the first entry after the start of the wave)
C35_OneSpawnPerUpdateInQueueOrder ==
    /\ 0 <= wm.enemiesSpawned
    /\ wm.enemiesSpawned <= wm.enemiesToSpawn
    /\ wm.enemiesToSpawn = Len(wm.spawnQueue)
    /\ last.op = "startNextWave" =>
          /\ SpawnedByCall = 0
          /\ Len(Delivered("spawn")) = 0
          /\ last.ret => wm.enemiesSpawned = 0
    /\ last.op = "update" =>
          /\ SpawnedByCall \in {0, 1}
          /\ Len(Delivered("spawn")) = (IF wm.callbacks THEN SpawnedByCall ELSE 0)
          /\ wm.enemiesSpawned
                = (IF ~Was.waveInProgress /\ wm.waveStartTime = now THEN 0
                   ELSE Was.enemiesSpawned) + SpawnedByCall
          /\ Len(Delivered("spawn")) = 1 =>
                Delivered("spawn")[1].b = wm.spawnQueue[wm.enemiesSpawned].type

\* an update that came 1700 ms after the one before, with the offsets of
\* two entries of the queue behind it, has spawned one unit, the third of
\* the wave, of the type of the third entry of the queue
C35_Witness ==
    /\ last.op = "update"
    /\ last.arg = 1700
    /\ wm.waveData = << FallingWave >>
    /\ Was.enemiesSpawned = 2
    /\ wm.enemiesSpawned = 3
    /\ Len(Delivered("spawn")) = 1
    /\ Delivered("spawn")[1].b = "FAST"
    /\ now >= Was.lastSpawnTime + 1000

----------------------------------------------------------------------------
(* Claims about the offsets of the queue and the start of the wave *)

\* the last call was an update of a wave under way with entries left
UpdateInWave ==
    /\ last.op = "update"
    /\ Was.waveInProgress
    /\ Was.enemiesSpawned < Len(Was.spawnQueue)

\* the offset of the entry that was next in the queue before the last call,
\* and the time elapsed since the start of the wave at that call
NextOffset == Was.spawnQueue[Was.enemiesSpawned + 1].spawnTime
ElapsedInWave == now - Was.waveStartTime

\* C36: during a wave, on each update at which the time elapsed since the
\* start of the wave has reached the offset of the next entry of the queue,
\* one unit of the type of that entry is spawned in that update and the
\* queue advances; no entry is spawned before its offset has elapsed since
\* the start of the wave
C36_SpawnWhenOffsetElapsed ==
    UpdateInWave =>
        /\ ElapsedInWave >= NextOffset =>
              /\ wm.enemiesSpawned = Was.enemiesSpawned + 1
              /\ wm.callbacks => /\ Len(Delivered("spawn")) = 1
                                 /\ Delivered("spawn")[1].b
                                       = Was.spawnQueue[Was.enemiesSpawned + 1].type
        /\ wm.enemiesSpawned = Was.enemiesSpawned + 1 => ElapsedInWave >= NextOffset

\* the part of C36 that the program keeps: no entry is spawned before its
\* offset has elapsed since the start of the wave
C36_NoSpawnBeforeOffset ==
    (UpdateInWave /\ wm.enemiesSpawned = Was.enemiesSpawned + 1)
        => ElapsedInWave >= NextOffset

\* C37: for every wave definition, whatever the counts and the intervals of
\* its groups, the offsets of the expanded spawn queue never decrease in the
\* order of the queue
C37_QueueIsTimeOrdered ==
    \A i \in 1..(Len(wm.spawnQueue) - 1) :
        wm.spawnQueue[i].spawnTime <= wm.spawnQueue[i + 1].spawnTime

\* the part of C37 that the program keeps: the offsets of the queues of
\* waves 1, 2 and 7 of WAVE_DATA, whose later groups have the longer
\* intervals, never decrease
C37_OwnWavesAreTimeOrdered ==
    wm.waveData # << FallingWave >> => C37_QueueIsTimeOrdered

----------------------------------------------------------------------------
(* A tower and two units that move: one tracked, one that comes into range  *)

\* how far along the route the unit in front and the unit behind it start: a
\* SNIPER tower at (608, 32) reaches the route from 666 px to 696 px of it
TrackAhead == {666000, 696000}

TrackBehind == {606000, 636000}

TrackDeltaTimes == {500}

TrackHorizon == 1500

TrackInit ==
    /\ towers = << TowerNew("SNIPER", 1, gridToPixel(BoundaryCell[1], BoundaryCell[2]).pixelX,
                            gridToPixel(BoundaryCell[1], BoundaryCell[2]).pixelY) >>
    /\ \E ahead \in TrackAhead, behind \in TrackBehind, wound \in [1..2 -> TargetWounds \ {100}] :
          enemies = << TargetUnit(2, ahead, wound[1]), TargetUnit(3, behind, wound[2]) >>
    /\ projectiles = << >>
    /\ wm = WaveManagerNew
    /\ game = [GameNew EXCEPT !.nextId = 4]
    /\ now = StartTime
    /\ err = NoError
    /\ last = NothingObserved
    /\ dealt = << >>

\* enemy.update(deltaTime) of every unit; the tower is not asked anything
TrackMove ==
    /\ now < StartTime + TrackHorizon
    /\ \E deltaTime \in TrackDeltaTimes :
          /\ enemies' = [i \in 1..Len(enemies) |-> EnemyUpdate(enemies[i], deltaTime)]
          /\ now' = now + deltaTime
          /\ last' = Observed("update", 0, deltaTime, FALSE, towers[1], << >>)
    /\ UNCHANGED <<towers, projectiles, wm, game, err, dealt>>

TrackNext == TrackMove \/ TargetSetMode \/ TargetFind \/ TargetDies

SpecTrack == TrackInit /\ [][TrackNext]_vars

\* the calls made on the tower or on the units around it
TrackCalls == {"update", "setTargetingMode", "findTarget", "takeDamage"}

\* the unit of the list the policy of the tower likes strictly more than the
\* unit it tracks, both alive and in range
PreferredToTracked(t) ==
    {i \in WithinReach(t) :
        \E k \in WithinReach(t) :
            /\ enemies[k].id = t.target
            /\ PolicyCost(t, enemies[i]) < PolicyCost(t, enemies[k])}

\* C38: a tower keeps its target as long as that unit is alive and in range:
\* no change of policy and no unit coming into range changes it, and the only
\* call after which the target differs is a findTarget that found the target
\* it had dead or out of range (or had none)
C38_TargetKeptWhileAliveInRange ==
    last.op \in TrackCalls =>
        /\ towers[1].target # last.pre.target =>
              last.op = "findTarget" /\ ~TracksUnitWithinReach(last.pre)
        /\ last.op = "findTarget" /\ TracksUnitWithinReach(last.pre) =>
              towers[1].target = last.pre.target

\* findTarget has kept the unit in front although the unit behind it, which
\* started out of range and came into it, is closer to the tower, the policy in
\* force now
C38_Witness ==
    /\ last.op = "findTarget"
    /\ last.pre.target = 2
    /\ towers[1].target = 2
    /\ towers[1].targetingMode = "closest_to_tower"
    /\ now > StartTime
    /\ 2 \in PreferredToTracked(towers[1])

----------------------------------------------------------------------------
(* Claims about the statistics of the waves *)

\* the last call completed a wave
WaveCompletedNow ==
    /\ last.op = "update"
    /\ wm.totalWavesCompleted = Was.totalWavesCompleted + 1

\* how long the wave the last call completed has taken
CompletedWaveTime == now - wm.waveStartTime

\* C39: once a wave has been completed the average wave time is a finite
\* number between the fastest and the slowest wave time (it is the mean of the
\* wave times)
C39_AverageIsFiniteBetweenExtremes ==
    wm.totalWavesCompleted >= 1 =>
        /\ ~wm.averageWaveTime.nan /\ wm.averageWaveTime.inf = 0
        /\ ~wm.fastestWave.nan /\ wm.fastestWave.inf = 0
        /\ ~wm.slowestWave.nan /\ wm.slowestWave.inf = 0
        /\ wm.fastestWave.v <= wm.averageWaveTime.v
        /\ wm.averageWaveTime.v <= wm.slowestWave.v

\* the part of C39 that holds: the fastest and the slowest wave time are
\* finite once a wave has been completed, and each completion makes them the
\* minimum and the maximum of what they were and the time of that wave
C39_FastestAndSlowestAreTheExtremes ==
    /\ wm.totalWavesCompleted >= 1 =>
          /\ wm.fastestWave = Finite(wm.fastestWave.v)
          /\ wm.slowestWave = Finite(wm.slowestWave.v)
          /\ 0 <= wm.fastestWave.v
          /\ wm.fastestWave.v <= wm.slowestWave.v
    /\ WaveCompletedNow =>
          /\ wm.fastestWave.v = IF Was.totalWavesCompleted = 0 \/ CompletedWaveTime < Was.fastestWave.v
                                THEN CompletedWaveTime ELSE Was.fastestWave.v
          /\ wm.slowestWave.v = IF CompletedWaveTime > Was.slowestWave.v
                                THEN CompletedWaveTime ELSE Was.slowestWave.v

\* the average is Infinity after the first wave and NaN from the second on
C39_AverageIsNeverFinite ==
    wm.totalWavesCompleted >= 1 =>
        wm.averageWaveTime = IF wm.totalWavesCompleted = 1 THEN Infinity ELSE NaN

----------------------------------------------------------------------------
(* Claims about the countdown between two waves *)

\* the last call was an update of a scheduler that was counting down, no
\* wave having been started by a caller since the countdown began
CountdownTick ==
    /\ last.op = "update"
    /\ Was.isCountingDown
    /\ ~Was.waveInProgress

\* what the update has left of the countdown
CountdownLeft == Was.waveCountdown - last.arg

\* the last update started a wave
StartedInUpdate == last.op = "update" /\ wm.waveStartTime = now

\* C40: a countdown starts at the interval between waves; every update of a
\* scheduler that is counting down takes its elapsed time off the countdown,
\* and the update that brings it to 0 or below starts the next wave (wave
\* number advanced in the event, countdown cleared while that wave is under
\* way); no update starts a wave while time is left on the countdown
C40_CountdownThenAutomaticStart ==
    /\ wm.isCountingDown /\ ~wm.waveInProgress =>
          0 < wm.waveCountdown /\ wm.waveCountdown <= 8000
    /\ last.op = "update" /\ wm.isCountingDown /\ ~(Was.isCountingDown /\ CountdownLeft > 0) =>
          wm.waveCountdown = 8000
    /\ CountdownTick /\ CountdownLeft > 0 =>
          /\ wm.isCountingDown
          /\ wm.waveCountdown = CountdownLeft
          /\ ~wm.waveInProgress
          /\ wm.currentWave = Was.currentWave
          /\ Len(Delivered("waveStart")) = 0
    /\ CountdownTick /\ CountdownLeft <= 0 =>
          /\ StartedInUpdate
          /\ wm.callbacks => /\ Len(Delivered("waveStart")) = 1
                             /\ Delivered("waveStart")[1].a = Was.currentWave + 1
          /\ IF wm.waveInProgress
             THEN ~wm.isCountingDown /\ wm.waveCountdown = 0 /\ wm.currentWave = Was.currentWave
             ELSE wm.waveComplete /\ wm.currentWave = Was.currentWave + 1
    /\ StartedInUpdate => Was.isCountingDown /\ CountdownLeft <= 0

\* the scheduler of the game had 4000 ms left on its countdown and an update
\* of 4000 ms started the second wave
C40_Witness ==
    /\ CountdownTick
    /\ Was.waveCountdown = 4000
    /\ last.arg = 4000
    /\ wm.callbacks
    /\ wm.waveInProgress
    /\ wm.currentWave = 1
    /\ ~wm.isCountingDown
    /\ Len(Delivered("waveStart")) = 1
    /\ wm.waveStartTime = now

====
